---- MODULE Spec2Model ----
(***************************************************************************)
(* State-machine model of the wa_llm message pipeline:                     *)
(*   - the webhook endpoint and MessageHandler.__call__ with the           *)
(*     in-memory TTLCache processing guard (src/api/webhook.py,            *)
(*     src/handler/__init__.py);                                           *)
(*   - the periodic summarization fan-out                                  *)
(*     (src/summarize_and_send_to_groups/__init__.py);                     *)
(*   - the roster reconciliation gather_groups (src/whatsapp/init_groups). *)
(* Every await of the code is an interleaving point: one action models the *)
(* completion of an awaited call together with the synchronous code that   *)
(* follows it up to the next await.                                        *)
(***************************************************************************)
EXTENDS Integers, Sequences, FiniteSets, TLC

VARIABLES
    now,               \* the clock (time.monotonic / datetime.now), in minutes
    processing_cache,  \* _processing_cache: sequence of [key, expires], oldest first
    pc,                \* per webhook delivery: the await it is suspended at
    msg,               \* per webhook delivery: the message id of its payload
    lastResponse,      \* what webhook() answered to the call that ended last
    inserted,          \* history: number of insertions into processing_cache
    ins,               \* history, per message id: its last insertion [at, n]
    firstIns,          \* history, per message id: its first insertion [at, n]
    insCount,          \* history, per message id: number of its insertions
    lastCall,          \* history: the last dedupe check: key, result, and how long
                       \* ago and how many insertions ago the key was inserted
    routerCalls,       \* history, per message id: router invocations
    spamCalls,         \* history, per message id: spam-handler invocations
    forwardCalls,      \* history, per message id: forward_message calls
    fwdFailed,         \* history, per webhook delivery: its forward met an error
    groups,            \* the Group table (committed rows), keyed by group_jid
    messages,          \* the Message table: rows [group_jid, timestamp, sender_jid, k]
    run,               \* summarize_and_send_to_groups: "idle", "running", "done"
    upc,               \* per group: the await its scheduler unit is suspended at
    usnap,             \* per group: the Group object the unit was started with
    uattempts,         \* per group: calls of the summarization agent so far
    ucgs,              \* per group: community groups the unit has yet to visit
    uwm,               \* per group: the last_summary_sync the unit has assigned
    outcome,           \* history, per group: how the unit ended
    fetched,           \* history, per group: number of messages the unit selected
    fetchedSet,        \* history, per group: the messages the unit selected
    tried,             \* history, per group: recipients a send was attempted to
    sentTo,            \* history, per group: recipients the summary was sent to
    errs,              \* history: units whose exception gather returned and logged
    senders,           \* the Sender table (committed rows): set of jids
    spc,               \* gather_groups: the await it is suspended at
    sleft,             \* gather_groups: the remote records not yet processed
    sog,               \* gather_groups: the existing Group it read (og)
    pending,           \* gather_groups: Group upserts of the open transaction
    pendingSenders,    \* gather_groups: Sender upserts of the open transaction
    saved,             \* gather_groups: saved_count
    skipped,           \* gather_groups: skipped_count
    sraised,           \* history: the JIDs of the records whose processing raised
    scommitted,        \* history: the cycle's commit returned
    wpc,               \* gather_groups_with_retry: where it is
    wattempt,          \* gather_groups_with_retry: calls of gather_groups so far
    etext,             \* the text of the message given to extract_message_count
    eresult,           \* what extract_message_count returned
    rpc,               \* Router.summarize: the await it is suspended at
    rqueue,            \* Router.summarize: the groups of all_groups not yet visited
    rfetched,          \* Router.summarize: len(group_messages) of the current group
    summaries,         \* Router.summarize: the blocks produced, by group, in order
    rfailed,           \* history: the groups whose agent.run raised
    replies,           \* the send_message calls of the router's actions, in order
    classifyCalls,     \* history: calls of Router._route
    rintent,           \* Router.__call__: the intent _route returned
    dispatched,        \* history: the actions Router.__call__ called, in order
    kpc,               \* whatsapp_keepalive: the await it is suspended at
    ping_count,        \* whatsapp_keepalive: ping_count
    kout,              \* history: the outcome of the latest probe
    last_successful_ping,  \* whatsapp_keepalive: last_successful_ping
    devices_count,     \* whatsapp_keepalive: devices_count
    session_start_time,    \* whatsapp_keepalive: session_start_time
    wmLog              \* history, per group: the stored last_summary_sync values

fwdVars == <<forwardCalls, fwdFailed>>
whVars == <<processing_cache, pc, msg, lastResponse, inserted, ins, firstIns,
            insCount, lastCall, routerCalls, spamCalls, fwdVars>>
histVars == <<inserted, ins, firstIns, insCount, lastCall, routerCalls, spamCalls>>
schedVars == <<messages, run, upc, usnap, uattempts, ucgs, uwm, outcome,
               fetched, fetchedSet, tried, sentTo, errs>>
bootVars == <<wpc, wattempt>>
\* the state of the other tasks of the application
extVars == <<etext, eresult>>
\* the state of the handlers called by the router
sumVars == <<rpc, rqueue, rfetched, summaries, rfailed, replies>>
routeVars == <<classifyCalls, rintent, dispatched>>
appVars == <<extVars, sumVars, routeVars>>
keepVars == <<kpc, ping_count, kout, last_successful_ping, devices_count,
             session_start_time>>
\* the state that the webhook, the scheduler and the sync do not touch
restVars == <<bootVars, appVars, keepVars>>
syncHist == <<sraised, scommitted>>
syncVars == <<senders, spc, sleft, sog, pending, pendingSenders, saved, skipped,
              syncHist>>
\* the state that the handlers called by the router do not touch
coreVars == <<groups, whVars, schedVars, syncVars, wmLog, bootVars, keepVars>>

(***************************************************************************)
(* Bounds of the model.                                                    *)
(***************************************************************************)
MaxTime == 4          \* the clock stops advancing here (minutes)
TickStep == 2         \* granularity of the clock (minutes)
NumDeliveries == 3    \* webhook calls per behaviour
\* TTLCache(maxsize=1000): the capacity, scaled down so that the model can
\* fill the cache; every formula below is stated in terms of maxsize.
maxsize == 1

\* TTLCache(ttl=4 * 60): the window, in minutes.
ttl == 4

Deliveries == 1..NumDeliveries

(***************************************************************************)
(* cachetools.TTLCache as the handler uses it: only `key in cache` and     *)
(* `cache[key] = True`.  Membership never reorders, so the LRU order is    *)
(* the insertion order, which is also the expiry order.                    *)
(***************************************************************************)
RECURSIVE SeqFilterLive(_, _)
SeqFilterLive(c, time) ==
    IF c = <<>> THEN <<>>
    ELSE IF time < Head(c).expires
         THEN <<Head(c)>> \o SeqFilterLive(Tail(c), time)
         ELSE SeqFilterLive(Tail(c), time)

\* TTLCache.expire(time): drop every entry with not (time < expires)
Expire(c, time) == SeqFilterLive(c, time)

\* (variant: membership that ignores the expiry time)
CacheContainsNoExpiry(c, key, time) ==
    \E i \in 1..Len(c) : c[i].key = key

\* TTLCache.__contains__: present and time < expires
CacheContains(c, key, time) ==
    \E i \in 1..Len(c) : c[i].key = key /\ time < c[i].expires

\* (variant: nothing is evicted)
EvictNothing(c) == c

\* Cache.__setitem__ for a key that is absent: while full, popitem() (the
\* least recently used, i.e. the first), then append with expires = time + ttl
RECURSIVE EvictToFit(_)
EvictToFit(c) == IF Len(c) + 1 > maxsize /\ c # <<>> THEN EvictToFit(Tail(c)) ELSE c

CacheSet(c, key, time) ==
    LET live == Expire(c, time)
        rest == SelectSeq(live, LAMBDA e : e.key # key)
    IN  EvictToFit(rest) \o <<[key |-> key, expires |-> time + ttl]>>

(***************************************************************************)
(* The payloads the gateway delivers.  A redelivery carries the same       *)
(* payload, so the attributes are a function of the message id.            *)
(***************************************************************************)
NoGroup == "none"

Payloads ==
    [ m1 |-> [text |-> TRUE,  sender |-> "user", group |-> "g1",
              mention |-> TRUE,  link |-> TRUE ],
      m2 |-> [text |-> TRUE,  sender |-> "user", group |-> NoGroup,
              mention |-> TRUE,  link |-> FALSE],
      m3 |-> [text |-> TRUE,  sender |-> "user", group |-> "g1",
              mention |-> FALSE, link |-> TRUE ],
      m4 |-> [text |-> TRUE,  sender |-> "user", group |-> "g2",
              mention |-> TRUE,  link |-> TRUE ],
      m5 |-> [text |-> TRUE,  sender |-> "bot",  group |-> "g1",
              mention |-> TRUE,  link |-> TRUE ],
      m6 |-> [text |-> FALSE, sender |-> "user", group |-> "g1",
              mention |-> FALSE, link |-> FALSE],
      m7 |-> [text |-> FALSE, sender |-> "user", group |-> "g2",
              mention |-> FALSE, link |-> FALSE],
      m8 |-> [text |-> TRUE,  sender |-> "bot",  group |-> "g2",
              mention |-> TRUE,  link |-> TRUE ] ]

MsgIds == DOMAIN Payloads

\* the payloads delivered: both reach the processing guard, one of a
\* managed group and one without a group
DedupeIds == {"m1", "m2"}

\* message.group: the Group row of the chat, or absent
HasGroup(m) == Payloads[m].group \in DOMAIN groups
GroupOf(m) == groups[Payloads[m].group]

(***************************************************************************)
(* The Group rows the handler sees.  g1 is a managed group with a forward  *)
(* URL and spam notification, g2 an unmanaged group configured the same.   *)
(***************************************************************************)
GroupRow(managed, keys, self, wm, url, spam) ==
    [group_name |-> "name0", group_topic |-> "topic0", owner_jid |-> "u0",
     managed |-> managed, community_keys |-> keys, send_summary_to_self |-> self,
     last_ingest |-> 0, last_summary_sync |-> wm, forward_url |-> url,
     notify_on_spam |-> spam]

WebhookGroups ==
    [ g1 |-> GroupRow(TRUE,  {}, FALSE, 0, TRUE, TRUE),
      g2 |-> GroupRow(FALSE, {}, FALSE, 0, TRUE, TRUE) ]

GroupJids == {"g1", "g2", "g3"}

\* no row: session.get returned None
NoRow == [group_name |-> "none"]

\* gather_groups has not been called
SyncIdle ==
    /\ spc = "idle"
    /\ sog = NoRow
    /\ pending = [g \in GroupJids |-> NoRow]
    /\ pendingSenders = {}
    /\ saved = 0
    /\ skipped = 0
    /\ sraised = {}
    /\ scommitted = FALSE

\* extract_message_count was not called
NotCalled == [some |-> FALSE, val |-> -1]

ExtractIdle ==
    /\ etext = <<>>
    /\ eresult = NotCalled

\* gather_groups_with_retry has not been started
BootIdle ==
    /\ wpc = "idle"
    /\ wattempt = 0

\* the other tasks of the application have not been started
\* Router.summarize has not been called
SummarizeIdle ==
    /\ rpc = "idle"
    /\ rqueue = <<>>
    /\ rfetched = 0
    /\ summaries = <<>>
    /\ rfailed = {}
    /\ replies = <<>>

\* whatsapp_keepalive has not been started
KeepIdle ==
    /\ kpc = "idle"
    /\ ping_count = 0
    /\ kout = "none"
    /\ last_successful_ping = -1
    /\ devices_count = -1
    /\ session_start_time = -1

\* Router.__call__ has not been called
RouteIdle ==
    /\ classifyCalls = 0
    /\ rintent = "none"
    /\ dispatched = <<>>

RestIdle == BootIdle /\ ExtractIdle /\ SummarizeIdle /\ KeepIdle /\ RouteIdle

\* the watermark values stored so far
WmLogInit == wmLog = [g \in GroupJids |->
                        IF g \in DOMAIN groups THEN {groups[g].last_summary_sync} ELSE {}]

\* no scheduler run has been started
SchedIdle ==
    /\ run = "idle"
    /\ upc = [g \in GroupJids |-> "none"]
    /\ usnap = [g \in GroupJids |-> GroupRow(FALSE, {}, FALSE, 0, FALSE, FALSE)]
    /\ uattempts = [g \in GroupJids |-> 0]
    /\ ucgs = [g \in GroupJids |-> <<>>]
    /\ uwm = [g \in GroupJids |-> 0]
    /\ outcome = [g \in GroupJids |-> "none"]
    /\ fetched = [g \in GroupJids |-> 0]
    /\ fetchedSet = [g \in GroupJids |-> {}]
    /\ tried = [g \in GroupJids |-> {}]
    /\ sentTo = [g \in GroupJids |-> {}]
    /\ errs = {}

(***************************************************************************)
(* webhook() and MessageHandler.__call__                                   *)
(***************************************************************************)
NoIns == [at |-> -1, n |-> 0]
NoCall == [key |-> "none", ok |-> FALSE, known |-> FALSE, age |-> 0, others |-> 0]

\* the handler returned normally: webhook() returns "ok"
Return(h) ==
    /\ pc' = [pc EXCEPT ![h] = "done"]
    /\ msg' = [msg EXCEPT ![h] = "none"]
    /\ lastResponse' = "ok"

\* an exception left the handler: webhook() has no try, the framework
\* answers the request with an internal server error
Raise(h) ==
    /\ pc' = [pc EXCEPT ![h] = "done"]
    /\ msg' = [msg EXCEPT ![h] = "none"]
    /\ lastResponse' = "500"

\* the handler is suspended at the next await
Await(h, at) ==
    /\ pc' = [pc EXCEPT ![h] = at]
    /\ UNCHANGED <<msg, lastResponse>>

\* deliveries are numbered in the order the webhook receives them
InOrder(h) == IF h = 1 THEN TRUE ELSE pc[h - 1] # "idle"

\* webhook(): payload.from_ is empty, the handler is not called
WebhookNoSender(h) ==
    /\ pc[h] = "idle"
    /\ InOrder(h)
    /\ Return(h)
    /\ UNCHANGED <<fwdVars, restVars, syncVars, wmLog, schedVars, now, groups, processing_cache, histVars>>

\* webhook(): await handler(payload); the handler awaits store_message
WebhookReceive(h, m) ==
    /\ pc[h] = "idle"
    /\ InOrder(h)
    /\ pc' = [pc EXCEPT ![h] = "store"]
    /\ msg' = [msg EXCEPT ![h] = m]
    /\ UNCHANGED <<fwdVars, restVars, syncVars, wmLog, schedVars, now, groups, processing_cache, lastResponse, histVars>>

\* line 42-46: the forward condition
ShouldForward(m) ==
    /\ HasGroup(m)
    /\ GroupOf(m).managed
    /\ GroupOf(m).forward_url

\* line 92-97: the spam-link condition
ShouldNotifySpam(m) ==
    /\ HasGroup(m)
    /\ GroupOf(m).managed
    /\ GroupOf(m).notify_on_spam
    /\ Payloads[m].link

\* line 51-56: no text -> return; otherwise await get_my_jid
AfterForward(h) ==
    IF ~Payloads[msg[h]].text THEN Return(h) ELSE Await(h, "jid")

\* store_message returned the stored message
StoreDone(h) ==
    /\ pc[h] = "store"
    /\ IF ShouldForward(msg[h])
       THEN /\ Await(h, "forward")
            /\ forwardCalls' = [forwardCalls EXCEPT ![msg[h]] = @ + 1]
       ELSE /\ AfterForward(h)
            /\ UNCHANGED forwardCalls
    /\ UNCHANGED <<fwdFailed, restVars, syncVars, wmLog, schedVars, now, groups, processing_cache, histVars>>

\* store_message raised
StoreFail(h) ==
    /\ pc[h] = "store"
    /\ Raise(h)
    /\ UNCHANGED <<fwdVars, restVars, syncVars, wmLog, schedVars, now, groups, processing_cache, histVars>>

\* forward_message returned: it catches every error of the POST itself
ForwardDone(h) ==
    /\ pc[h] = "forward"
    /\ AfterForward(h)
    /\ UNCHANGED <<fwdVars, restVars, syncVars, wmLog, schedVars, now, groups, processing_cache, histVars>>

ForwardFailRaises(h) ==
    /\ pc[h] = "forward"
    /\ Raise(h)
    /\ fwdFailed' = [fwdFailed EXCEPT ![h] = TRUE]
    /\ UNCHANGED <<forwardCalls, restVars, syncVars, wmLog, schedVars, now, groups, processing_cache, histVars>>

\* forward_message line 112-130: the POST timed out, was answered with an
\* error status or raised anything else; the error is logged and
\* forward_message returns
ForwardFail(h) ==
    /\ pc[h] = "forward"
    /\ AfterForward(h)
    /\ fwdFailed' = [fwdFailed EXCEPT ![h] = TRUE]
    /\ UNCHANGED <<forwardCalls, restVars, syncVars, wmLog, schedVars, now, groups, processing_cache, histVars>>

\* line 91-98: the spam check, after the router or without it
AfterRouter(h) ==
    IF ShouldNotifySpam(msg[h])
    THEN /\ Await(h, "spam")
         /\ spamCalls' = [spamCalls EXCEPT ![msg[h]] = @ + 1]
    ELSE /\ Return(h)
         /\ UNCHANGED spamCalls

\* line 72-79: the check-and-insert under _processing_lock.  The body holds
\* no await, so the lock is never contended and the block is one step.
\* (variant: the check without the insertion)
AdmitNoInsert(c, key, time) ==
    [ok |-> ~CacheContains(c, key, time), cache |-> c]

\* (variant: a rejected check renews the entry)
AdmitRenews(c, key, time) ==
    [ok |-> ~CacheContains(c, key, time), cache |-> CacheSet(c, key, time)]

Admit(c, key, time) ==
    IF CacheContains(c, key, time)
    THEN [ok |-> FALSE, cache |-> c]
    ELSE [ok |-> TRUE, cache |-> CacheSet(c, key, time)]

\* line 81-89: route only a message that mentions the bot
ShouldRoute(m) == Payloads[m].mention

\* the message passes the check of line 65-68 whatever its group
UnmanagedNever(m) == FALSE

\* line 65-68: message.group and not message.group.managed
Unmanaged(m) == HasGroup(m) /\ ~GroupOf(m).managed

\* the message passes the check of line 55-58 whoever sent it
FromSelfNever(m) == FALSE

\* line 55-58: message.sender_jid == my_jid.normalize_str()
FromSelf(m) == Payloads[m].sender = "bot"

\* get_my_jid returned: self check, managed check, dedupe, mention, spam
JidDone(h) ==
    /\ pc[h] = "jid"
    /\ LET m == msg[h]
           a == Admit(processing_cache, m, now)
           here == [at |-> now, n |-> inserted + 1]
       IN  IF FromSelf(m)
           THEN /\ Return(h)
                /\ UNCHANGED <<processing_cache, histVars>>
           ELSE IF Unmanaged(m)
           THEN /\ Return(h)
                /\ UNCHANGED <<processing_cache, histVars>>
           ELSE /\ processing_cache' = a.cache
                /\ lastCall' = [key |-> m, ok |-> a.ok,
                                known |-> ins[m] # NoIns,
                                age |-> now - ins[m].at,
                                others |-> inserted - ins[m].n]
                /\ inserted' = IF a.ok THEN inserted + 1 ELSE inserted
                /\ ins' = IF a.ok THEN [ins EXCEPT ![m] = here] ELSE ins
                /\ firstIns' = IF a.ok /\ firstIns[m] = NoIns
                               THEN [firstIns EXCEPT ![m] = here] ELSE firstIns
                /\ insCount' = IF a.ok THEN [insCount EXCEPT ![m] = @ + 1]
                               ELSE insCount
                /\ IF ~a.ok
                   THEN /\ Return(h)
                        /\ UNCHANGED <<routerCalls, spamCalls>>
                   ELSE IF ShouldRoute(m)
                   THEN /\ Await(h, "router")
                        /\ routerCalls' = [routerCalls EXCEPT ![m] = @ + 1]
                        /\ UNCHANGED spamCalls
                   ELSE /\ AfterRouter(h)
                        /\ UNCHANGED routerCalls
    /\ UNCHANGED <<fwdVars, restVars, syncVars, wmLog, schedVars, now, groups>>

\* get_my_jid raised
JidFail(h) ==
    /\ pc[h] = "jid"
    /\ Raise(h)
    /\ UNCHANGED <<fwdVars, restVars, syncVars, wmLog, schedVars, now, groups, processing_cache, histVars>>

\* self.router(message) returned
RouterDone(h) ==
    /\ pc[h] = "router"
    /\ AfterRouter(h)
    /\ UNCHANGED <<fwdVars, restVars, syncVars, wmLog, schedVars, now, groups, processing_cache, inserted, ins, firstIns,
                   insCount, lastCall, routerCalls>>

\* self.router(message) raised: classification or the action failed
RouterFail(h) ==
    /\ pc[h] = "router"
    /\ Raise(h)
    /\ UNCHANGED <<fwdVars, restVars, syncVars, wmLog, schedVars, now, groups, processing_cache, histVars>>

\* self.whatsapp_group_link_spam(message) returned
SpamDone(h) ==
    /\ pc[h] = "spam"
    /\ Return(h)
    /\ UNCHANGED <<fwdVars, restVars, syncVars, wmLog, schedVars, now, groups, processing_cache, histVars>>

\* self.whatsapp_group_link_spam(message) raised
SpamFail(h) ==
    /\ pc[h] = "spam"
    /\ Raise(h)
    /\ UNCHANGED <<fwdVars, restVars, syncVars, wmLog, schedVars, now, groups, processing_cache, histVars>>

\* time passes
Tick ==
    /\ now < MaxTime
    /\ now' = now + TickStep
    /\ UNCHANGED <<groups, whVars, schedVars, syncVars, wmLog, restVars>>

vars == <<now, groups, whVars, schedVars, syncVars, wmLog, restVars>>

WebhookIdle ==
    /\ processing_cache = <<>>
    /\ pc = [h \in Deliveries |-> "idle"]
    /\ msg = [h \in Deliveries |-> "none"]
    /\ lastResponse = "none"
    /\ inserted = 0
    /\ ins = [m \in MsgIds |-> NoIns]
    /\ firstIns = [m \in MsgIds |-> NoIns]
    /\ insCount = [m \in MsgIds |-> 0]
    /\ lastCall = NoCall
    /\ routerCalls = [m \in MsgIds |-> 0]
    /\ spamCalls = [m \in MsgIds |-> 0]
    /\ forwardCalls = [m \in MsgIds |-> 0]
    /\ fwdFailed = [h \in Deliveries |-> FALSE]

InitWebhook ==
    /\ now = 0
    /\ groups = WebhookGroups
    /\ WebhookIdle
    /\ SchedIdle
    /\ messages = {}
    /\ SyncIdle
    /\ senders = {}
    /\ sleft = <<>>
    /\ WmLogInit
    /\ RestIdle

NextWebhook ==
    \/ Tick
    \/ \E h \in Deliveries : WebhookNoSender(h)
    \/ \E h \in Deliveries, m \in DedupeIds : WebhookReceive(h, m)
    \/ \E h \in Deliveries : StoreDone(h)
    \/ \E h \in Deliveries : StoreFail(h)
    \/ \E h \in Deliveries : ForwardDone(h)
    \/ \E h \in Deliveries : JidDone(h)
    \/ \E h \in Deliveries : JidFail(h)
    \/ \E h \in Deliveries : RouterDone(h)
    \/ \E h \in Deliveries : RouterFail(h)
    \/ \E h \in Deliveries : SpamDone(h)
    \/ \E h \in Deliveries : SpamFail(h)

SpecWebhook == InitWebhook /\ [][NextWebhook]_vars

\* deliveries of messages of the unmanaged group g2, with and without text,
\* from a user and from the bot, beside a message of the managed group; g2
\* has any combination of forward_url and notify_on_spam
UnmanagedIds == {"m4", "m7", "m8"}

InitUnmanaged ==
    /\ now = 0
    /\ \E url, spam \in BOOLEAN :
           groups = [WebhookGroups EXCEPT !["g2"].forward_url = url,
                                          !["g2"].notify_on_spam = spam]
    /\ WebhookIdle
    /\ SchedIdle
    /\ messages = {}
    /\ SyncIdle
    /\ senders = {}
    /\ sleft = <<>>
    /\ WmLogInit
    /\ RestIdle

NextUnmanaged ==
    \/ Tick
    \/ \E h \in Deliveries : WebhookNoSender(h)
    \/ \E h \in Deliveries, m \in UnmanagedIds \cup {"m1"} : WebhookReceive(h, m)
    \/ \E h \in Deliveries : StoreDone(h)
    \/ \E h \in Deliveries : StoreFail(h)
    \/ \E h \in Deliveries : ForwardDone(h)
    \/ \E h \in Deliveries : JidDone(h)
    \/ \E h \in Deliveries : JidFail(h)
    \/ \E h \in Deliveries : RouterDone(h)
    \/ \E h \in Deliveries : RouterFail(h)
    \/ \E h \in Deliveries : SpamDone(h)
    \/ \E h \in Deliveries : SpamFail(h)

SpecUnmanaged == InitUnmanaged /\ [][NextUnmanaged]_vars

\* deliveries of a message of the bot itself and of a message without text,
\* beside a message of a user, all of the managed group g1
PolicyIds == {"m1", "m5", "m6"}

NextPolicy ==
    \/ Tick
    \/ \E h \in Deliveries : WebhookNoSender(h)
    \/ \E h \in Deliveries, m \in PolicyIds : WebhookReceive(h, m)
    \/ \E h \in Deliveries : StoreDone(h)
    \/ \E h \in Deliveries : StoreFail(h)
    \/ \E h \in Deliveries : ForwardDone(h)
    \/ \E h \in Deliveries : JidDone(h)
    \/ \E h \in Deliveries : JidFail(h)
    \/ \E h \in Deliveries : RouterDone(h)
    \/ \E h \in Deliveries : RouterFail(h)
    \/ \E h \in Deliveries : SpamDone(h)
    \/ \E h \in Deliveries : SpamFail(h)

SpecPolicy == InitWebhook /\ [][NextPolicy]_vars

\* deliveries of a message with text and of one without, both of the
\* managed group g1, which has a forward URL; the forward may fail
ForwardIds == {"m1", "m6"}

NextForward ==
    \/ Tick
    \/ \E h \in Deliveries : WebhookNoSender(h)
    \/ \E h \in Deliveries, m \in ForwardIds : WebhookReceive(h, m)
    \/ \E h \in Deliveries : StoreDone(h)
    \/ \E h \in Deliveries : StoreFail(h)
    \/ \E h \in Deliveries : ForwardDone(h)
    \/ \E h \in Deliveries : ForwardFail(h)
    \/ \E h \in Deliveries : JidDone(h)
    \/ \E h \in Deliveries : JidFail(h)
    \/ \E h \in Deliveries : RouterDone(h)
    \/ \E h \in Deliveries : RouterFail(h)
    \/ \E h \in Deliveries : SpamDone(h)
    \/ \E h \in Deliveries : SpamFail(h)

SpecForward == InitWebhook /\ [][NextForward]_vars

(***************************************************************************)
(* summarize_and_send_to_groups: the periodic fan-out.                     *)
(***************************************************************************)
\* `if len(messages) < 5`
MinMessages == 5
\* stop_after_attempt(6)
MaxAttempts == 6
\* whatsapp.get_my_jid().normalize_str()
MyJid == "bot"

\* the groups of the scheduler scenarios: two managed groups and an
\* unmanaged one, linked by one community key; all three want summaries
SchedGroups ==
    [ g1 |-> GroupRow(TRUE,  {"k1"}, TRUE, 1, FALSE, FALSE),
      g2 |-> GroupRow(TRUE,  {"k1"}, TRUE, 1, FALSE, FALSE),
      g3 |-> GroupRow(FALSE, {"k1"}, TRUE, 1, FALSE, FALSE) ]

Batch(g, ts, sender, n) ==
    { [group_jid |-> g, timestamp |-> ts, sender_jid |-> sender, k |-> i] : i \in 1..n }

\* one message short of the threshold, beside an old message and a bot message
FewMessages(g) ==
    Batch(g, 1, "user", MinMessages - 1) \cup Batch(g, 0, "user", 1)
        \cup Batch(g, 1, MyJid, 1)

EnoughMessages(g) == FewMessages(g) \cup Batch(g, 2, "user", 1)

\* line 58-65: the messages of the group since the watermark, not by the bot
Qualifying(g, wm) ==
    { m \in messages : /\ m.group_jid = g
                       /\ m.timestamp >= wm
                       /\ m.sender_jid # MyJid }

\* Group.get_related_community_groups: the other groups sharing a key
RelatedCommunityGroups(g) ==
    { x \in DOMAIN groups \ {g} :
          groups[x].community_keys \cap usnap[g].community_keys # {} }

\* the orders in which a query may return the rows of S
SeqsOf(S) ==
    { q \in [1..Cardinality(S) -> S] :
          \A i, j \in 1..Cardinality(S) : i # j => q[i] # q[j] }

\* the recipients a unit's summary is meant for
EligibleRecipients(g) ==
    (IF usnap[g].send_summary_to_self THEN {g} ELSE {})
        \cup { x \in RelatedCommunityGroups(g) : groups[x].send_summary_to_self }

Settled(g) == upc[g] \in {"none", "done", "raised"}

\* line 111-116: select the managed groups, one unit per group, gather
StartRun ==
    /\ run = "idle"
    /\ run' = "running"
    /\ upc' = [g \in GroupJids |->
                 IF g \in DOMAIN groups /\ groups[g].managed THEN "jid" ELSE "none"]
    /\ usnap' = [g \in GroupJids |->
                 IF g \in DOMAIN groups /\ groups[g].managed THEN groups[g] ELSE usnap[g]]
    /\ UNCHANGED <<restVars, syncVars, wmLog, now, groups, whVars, messages, uattempts, ucgs, uwm, outcome,
                   fetched, fetchedSet, tried, sentTo, errs>>

\* the unit returned or raised: nothing more happens in it
End(g, how, result) ==
    /\ upc' = [upc EXCEPT ![g] = how]
    /\ outcome' = [outcome EXCEPT ![g] = result]

\* line 47-52: get_my_jid returned the bot's identity; the select is awaited
UnitJid(g) ==
    /\ upc[g] = "jid"
    /\ upc' = [upc EXCEPT ![g] = "fetch"]
    /\ UNCHANGED <<restVars, syncVars, wmLog, now, groups, whVars, messages, run, usnap, uattempts, ucgs,
                   uwm, outcome, fetched, fetchedSet, tried, sentTo, errs>>

\* line 49-56: get_my_jid returned nothing or raised: logged, return
UnitJidFail(g) ==
    /\ upc[g] = "jid"
    /\ End(g, "done", "no_jid")
    /\ UNCHANGED <<restVars, syncVars, wmLog, now, groups, whVars, messages, run, usnap, uattempts, ucgs,
                   uwm, fetched, fetchedSet, tried, sentTo, errs>>

\* line 58-72: the select returned; fewer than 5 -> return, else summarize
EnoughToSummarizeOffByOne(n) == ~(n < MinMessages - 1)

EnoughToSummarize(n) == ~(n < MinMessages)

UnitFetch(g) ==
    /\ upc[g] = "fetch"
    /\ LET n == Cardinality(Qualifying(g, usnap[g].last_summary_sync))
       IN  /\ fetched' = [fetched EXCEPT ![g] = n]
           /\ fetchedSet' = [fetchedSet EXCEPT
                                 ![g] = Qualifying(g, usnap[g].last_summary_sync)]
           /\ IF EnoughToSummarize(n)
              THEN /\ upc' = [upc EXCEPT ![g] = "summarize"]
                   /\ UNCHANGED outcome
              ELSE End(g, "done", "too_few")
    /\ UNCHANGED <<restVars, syncVars, wmLog, now, groups, whVars, messages, run, usnap, uattempts, ucgs,
                   uwm, tried, sentTo, errs>>

\* line 58: session.exec raised: the exception leaves the unit
UnitFetchFail(g) ==
    /\ upc[g] = "fetch"
    /\ End(g, "raised", "raised")
    /\ UNCHANGED <<restVars, syncVars, wmLog, now, groups, whVars, messages, run, usnap, uattempts, ucgs,
                   uwm, fetched, fetchedSet, tried, sentTo, errs>>

\* the finally block without the assignment of now
FinallyNoAdvance(g, result) ==
    /\ uwm' = [uwm EXCEPT ![g] = usnap[g].last_summary_sync]
    /\ End(g, "commit", result)

\* line 104-108, the finally block: assign now, add, commit is awaited
Finally(g, result) ==
    /\ uwm' = [uwm EXCEPT ![g] = now]
    /\ End(g, "commit", result)

\* line 88-99: the loop over the community groups, up to the next send
VisitNext(g, cgs, result) ==
    IF cgs = <<>>
    THEN /\ Finally(g, result)
         /\ ucgs' = [ucgs EXCEPT ![g] = <<>>]
         /\ UNCHANGED tried
    ELSE /\ upc' = [upc EXCEPT ![g] = "send_cg"]
         /\ ucgs' = [ucgs EXCEPT ![g] = cgs]
         /\ tried' = [tried EXCEPT ![g] = @ \cup {Head(cgs)}]
         /\ UNCHANGED <<uwm, outcome>>

SummarizeOkSelfAlways(g) ==
    /\ upc[g] = "summarize"
    /\ uattempts' = [uattempts EXCEPT ![g] = @ + 1]
    /\ upc' = [upc EXCEPT ![g] = "send_self"]
    /\ tried' = [tried EXCEPT ![g] = @ \cup {g}]
    /\ UNCHANGED <<restVars, syncVars, wmLog, now, groups, whVars, messages, run, usnap, ucgs, uwm, outcome,
                   fetched, fetchedSet, sentTo, errs>>

\* line 23-44 and 71-80: the agent returned the summary; send to the group
\* itself if it wants it, else look up the community groups
SummarizeOk(g) ==
    /\ upc[g] = "summarize"
    /\ uattempts' = [uattempts EXCEPT ![g] = @ + 1]
    /\ IF usnap[g].send_summary_to_self
       THEN /\ upc' = [upc EXCEPT ![g] = "send_self"]
            /\ tried' = [tried EXCEPT ![g] = @ \cup {g}]
       ELSE /\ upc' = [upc EXCEPT ![g] = "related"]
            /\ UNCHANGED tried
    /\ UNCHANGED <<restVars, syncVars, wmLog, now, groups, whVars, messages, run, usnap, ucgs, uwm, outcome,
                   fetched, fetchedSet, sentTo, errs>>

\* the retry policy of summarize(): stop_after_attempt, reraise=True
GiveUpLate(attempt) == attempt >= MaxAttempts + 1

GiveUp(attempt) == attempt >= MaxAttempts

\* line 23-28 and 73-76: the agent raised; retried after a sleep, and after
\* the last attempt re-raised to the unit, which logs it and returns
SummarizeFail(g) ==
    /\ upc[g] = "summarize"
    /\ uattempts' = [uattempts EXCEPT ![g] = @ + 1]
    /\ IF GiveUp(uattempts[g] + 1)
       THEN End(g, "done", "summarize_failed")
       ELSE UNCHANGED <<upc, outcome>>
    /\ UNCHANGED <<restVars, syncVars, wmLog, now, groups, whVars, messages, run, usnap, ucgs, uwm,
                   fetched, fetchedSet, tried, sentTo, errs>>

\* line 80-87: the send to the group itself returned
SendSelfOk(g) ==
    /\ upc[g] = "send_self"
    /\ sentTo' = [sentTo EXCEPT ![g] = @ \cup {g}]
    /\ upc' = [upc EXCEPT ![g] = "related"]
    /\ UNCHANGED <<restVars, syncVars, wmLog, now, groups, whVars, messages, run, usnap, uattempts, ucgs,
                   uwm, outcome, fetched, fetchedSet, tried, errs>>

\* line 101-108: a send raised: except logs it, then the finally block
SendSelfFail(g) ==
    /\ upc[g] = "send_self"
    /\ Finally(g, "send_failed")
    /\ UNCHANGED <<restVars, syncVars, wmLog, now, groups, whVars, messages, run, usnap, uattempts, ucgs,
                   fetched, fetchedSet, tried, sentTo, errs>>

\* line 88-99: get_related_community_groups returned the rows, in some order;
\* the loop skips the groups with send_summary_to_self = False
RelatedOk(g) ==
    /\ upc[g] = "related"
    /\ \E order \in SeqsOf(RelatedCommunityGroups(g)) :
           VisitNext(g, SelectSeq(order, LAMBDA x : groups[x].send_summary_to_self),
                     "sent")
    /\ UNCHANGED <<restVars, syncVars, wmLog, now, groups, whVars, messages, run, usnap, uattempts,
                   fetched, fetchedSet, sentTo, errs>>

\* line 88: get_related_community_groups raised
RelatedFail(g) ==
    /\ upc[g] = "related"
    /\ Finally(g, "lookup_failed")
    /\ UNCHANGED <<restVars, syncVars, wmLog, now, groups, whVars, messages, run, usnap, uattempts, ucgs,
                   fetched, fetchedSet, tried, sentTo, errs>>

\* line 94-97: the send to a community group returned
SendCgOk(g) ==
    /\ upc[g] = "send_cg"
    /\ sentTo' = [sentTo EXCEPT ![g] = @ \cup {Head(ucgs[g])}]
    /\ VisitNext(g, Tail(ucgs[g]), "sent")
    /\ UNCHANGED <<restVars, syncVars, wmLog, now, groups, whVars, messages, run, usnap, uattempts,
                   fetched, fetchedSet, errs>>

\* line 94 and 101-108: the send to a community group raised
SendCgFail(g) ==
    /\ upc[g] = "send_cg"
    /\ Finally(g, "send_failed")
    /\ UNCHANGED <<restVars, syncVars, wmLog, now, groups, whVars, messages, run, usnap, uattempts, ucgs,
                   fetched, fetchedSet, tried, sentTo, errs>>

\* line 106-108: the commit of the new last_summary_sync returned.  The
\* UPDATE waits while another transaction holds an uncommitted upsert of
\* the row.
UnitCommit(g) ==
    /\ upc[g] = "commit"
    /\ pending[g] = NoRow
    /\ groups' = [groups EXCEPT ![g].last_summary_sync = uwm[g]]
    /\ wmLog' = [wmLog EXCEPT ![g] = @ \cup {uwm[g]}]
    /\ upc' = [upc EXCEPT ![g] = "done"]
    /\ UNCHANGED <<now, whVars, messages, run, usnap, uattempts, ucgs, uwm,
                   outcome, fetched, fetchedSet, tried, sentTo, errs, syncVars, restVars>>

\* line 117-120: gather(return_exceptions=True) returns once every unit has
\* returned or raised; the exceptions are logged
GatherFirstException ==
    \/ \E g \in GroupJids : upc[g] = "raised"
    \/ \A g \in GroupJids : Settled(g)

GatherWaits == \A g \in GroupJids : Settled(g)

FinishRun ==
    /\ run = "running"
    /\ GatherWaits
    /\ run' = "done"
    /\ errs' = { g \in GroupJids : upc[g] = "raised" }
    /\ UNCHANGED <<restVars, syncVars, wmLog, now, groups, whVars, messages, upc, usnap, uattempts, ucgs,
                   uwm, outcome, fetched, fetchedSet, tried, sentTo>>

InitSched ==
    /\ now = TickStep
    /\ groups = SchedGroups
    /\ \E enough \in [{"g1", "g2"} -> BOOLEAN] :
           messages = UNION { IF enough[g] THEN EnoughMessages(g) ELSE FewMessages(g)
                              : g \in {"g1", "g2"} }
    /\ SchedIdle
    /\ WebhookIdle
    /\ SyncIdle
    /\ senders = {"u0"}
    /\ sleft = <<>>
    /\ WmLogInit
    /\ RestIdle

UnitStep(g) ==
    \/ UnitJid(g)
    \/ UnitJidFail(g)
    \/ UnitFetch(g)
    \/ UnitFetchFail(g)
    \/ SummarizeOk(g)
    \/ SummarizeFail(g)
    \/ SendSelfOk(g)
    \/ SendSelfFail(g)
    \/ RelatedOk(g)
    \/ RelatedFail(g)
    \/ SendCgOk(g)
    \/ SendCgFail(g)
    \/ UnitCommit(g)

NextSched ==
    \/ Tick
    \/ StartRun
    \/ \E g \in GroupJids : UnitStep(g)
    \/ FinishRun

SpecSched == InitSched /\ [][NextSched]_vars

\* the origin group g1, wanting its own summary or not; g2, linked to it,
\* wanting summaries or not; g3, wanting summaries, linked to g1 or not
InitRecipients ==
    /\ now = TickStep
    /\ \E self1, self2 \in BOOLEAN, keys3 \in {{"k1"}, {"k2"}} :
           groups = [ g1 |-> GroupRow(TRUE,  {"k1"}, self1, 1, FALSE, FALSE),
                      g2 |-> GroupRow(FALSE, {"k1"}, self2, 1, FALSE, FALSE),
                      g3 |-> GroupRow(FALSE, keys3,  TRUE,  1, FALSE, FALSE) ]
    /\ messages = EnoughMessages("g1")
    /\ SchedIdle
    /\ WebhookIdle
    /\ SyncIdle
    /\ senders = {"u0"}
    /\ sleft = <<>>
    /\ WmLogInit
    /\ RestIdle

SpecRecipients == InitRecipients /\ [][NextSched]_vars

\* handler line 39: store_message of a webhook delivery has stored a
\* message of the group, sent by another user, with the time of the clock
MessageStored(g) ==
    /\ messages' = messages \cup Batch(g, now, "u1", 1)
    /\ messages' # messages
    /\ UNCHANGED <<now, groups, whVars, run, upc, usnap, uattempts, ucgs, uwm, outcome,
                   fetched, fetchedSet, tried, sentTo, errs, syncVars, wmLog, restVars>>

NextSchedStore ==
    \/ NextSched
    \/ MessageStored("g1")

\* a scheduler run while the webhook stores messages of the group
SpecSchedStore == InitRecipients /\ [][NextSchedStore]_vars

(***************************************************************************)
(* gather_groups: the roster sync                                          *)
(***************************************************************************)
\* a record of the remote roster
Remote(jid, name, owner) ==
    [JID |-> jid, Name |-> name, Topic |-> name, OwnerPN |-> owner]

\* line 42: not g.JID or not g.JID.strip()
BlankJid(jid) == jid = ""

\* line 40-46: the loop passes over the records with a blank JID
RECURSIVE DropBlank(_)
DropBlank(items) ==
    IF items = <<>> THEN <<>>
    ELSE IF BlankJid(Head(items).JID) THEN DropBlank(Tail(items))
    ELSE items

\* line 40-50 and 88-90: the loop up to its next await; after the last
\* record, flush is awaited
SyncEnter(items, sk) ==
    LET rest == DropBlank(items)
    IN  /\ sleft' = rest
        /\ skipped' = sk + (Len(items) - Len(rest))
        /\ spc' = IF rest = <<>> THEN "flush" ELSE "get_owner"

\* an exception in the item ends the loop
ItemFailAbortsBatch ==
    /\ SyncEnter(<<>>, skipped + 1)
    /\ sog' = NoRow
    /\ sraised' = sraised \cup {Head(sleft).JID}
    /\ UNCHANGED <<senders, pending, pendingSenders, saved, scommitted>>

\* line 83-86: an exception in the item is logged and counted as skipped
ItemFail ==
    /\ SyncEnter(Tail(sleft), skipped + 1)
    /\ sog' = NoRow
    /\ sraised' = sraised \cup {Head(sleft).JID}
    /\ UNCHANGED <<senders, pending, pendingSenders, saved, scommitted>>

\* re-raise without the rollback
RollbackKeepsPending ==
    /\ spc' = "failed"
    /\ UNCHANGED <<senders, sleft, sog, pending, pendingSenders, saved, skipped, syncHist>>

\* line 95-98: rollback, log and re-raise
Rollback ==
    /\ spc' = "failed"
    /\ pending' = [g \in GroupJids |-> NoRow]
    /\ pendingSenders' = {}
    /\ UNCHANGED <<senders, sleft, sog, saved, skipped, syncHist>>

\* line 18: client.get_user_groups() is awaited
SyncStart ==
    /\ spc = "idle"
    /\ spc' = "roster"
    /\ UNCHANGED <<senders, sleft, sog, pending, pendingSenders, saved, skipped, syncHist>>
    /\ UNCHANGED <<now, groups, whVars, schedVars, wmLog, restVars>>

\* line 18 and 26-40: the roster arrived; an empty roster returns at once
RosterOk ==
    /\ spc = "roster"
    /\ IF sleft = <<>>
       THEN /\ spc' = "done"
            /\ UNCHANGED <<sleft, skipped>>
       ELSE SyncEnter(sleft, 0)
    /\ UNCHANGED <<senders, sog, pending, pendingSenders, saved, syncHist>>
    /\ UNCHANGED <<now, groups, whVars, schedVars, wmLog, restVars>>

\* line 19-23: HTTP 401 is logged and gather_groups returns
RosterUnauthorized ==
    /\ spc = "roster"
    /\ spc' = "unauthenticated"
    /\ UNCHANGED <<senders, sleft, sog, pending, pendingSenders, saved, skipped, syncHist>>
    /\ UNCHANGED <<now, groups, whVars, schedVars, wmLog, restVars>>

\* line 24: any other error of the roster call is raised: an
\* HTTPStatusError with another status, or another exception
RosterFail ==
    /\ spc = "roster"
    /\ \E kind \in {"failed", "failed_http"} : spc' = kind
    /\ UNCHANGED <<senders, sleft, sog, pending, pendingSenders, saved, skipped, syncHist>>
    /\ UNCHANGED <<now, groups, whVars, schedVars, wmLog, restVars>>

\* line 49-50: session.get(Sender, ownerUsr) returned
GetOwnerDone ==
    /\ spc = "get_owner"
    /\ spc' = IF Head(sleft).OwnerPN \in senders \cup pendingSenders
              THEN "get_group" ELSE "upsert_owner"
    /\ UNCHANGED <<senders, sleft, sog, pending, pendingSenders, saved, skipped, syncHist>>
    /\ UNCHANGED <<now, groups, whVars, schedVars, wmLog, restVars>>

GetOwnerFail ==
    /\ spc = "get_owner"
    /\ ItemFail
    /\ UNCHANGED <<now, groups, whVars, schedVars, wmLog, restVars>>

\* line 51-56: the owner's Sender row is upserted
UpsertOwnerDone ==
    /\ spc = "upsert_owner"
    /\ pendingSenders' = pendingSenders \cup {Head(sleft).OwnerPN}
    /\ spc' = "get_group"
    /\ UNCHANGED <<senders, sleft, sog, pending, saved, skipped, syncHist>>
    /\ UNCHANGED <<now, groups, whVars, schedVars, wmLog, restVars>>

UpsertOwnerFail ==
    /\ spc = "upsert_owner"
    /\ ItemFail
    /\ UNCHANGED <<now, groups, whVars, schedVars, wmLog, restVars>>

\* what a read in the open transaction sees of the Group row
Visible(jid) ==
    IF pending[jid] # NoRow THEN pending[jid]
    ELSE IF jid \in DOMAIN groups THEN groups[jid]
    ELSE NoRow

\* line 59-62: og = await session.get(Group, g.JID)
GetGroupDone ==
    /\ spc = "get_group"
    /\ sog' = Visible(Head(sleft).JID)
    /\ spc' = "upsert"
    /\ UNCHANGED <<senders, sleft, pending, pendingSenders, saved, skipped, syncHist>>
    /\ UNCHANGED <<now, groups, whVars, schedVars, wmLog, restVars>>

\* line 63-65: the lookup raised: og = None
GetGroupFail ==
    /\ spc = "get_group"
    /\ sog' = NoRow
    /\ spc' = "upsert"
    /\ UNCHANGED <<senders, sleft, pending, pendingSenders, saved, skipped, syncHist>>
    /\ UNCHANGED <<now, groups, whVars, schedVars, wmLog, restVars>>

\* line 67-81: descriptive fields from the remote record, the others from
\* og, or defaults when there is no og
BuildGroup(r, og) ==
    [group_name |-> r.Name, group_topic |-> r.Topic, owner_jid |-> r.OwnerPN,
     managed |-> IF og # NoRow THEN og.managed ELSE FALSE,
     community_keys |-> IF og # NoRow THEN og.community_keys ELSE {},
     send_summary_to_self |-> IF og # NoRow THEN og.send_summary_to_self ELSE FALSE,
     last_ingest |-> IF og # NoRow THEN og.last_ingest ELSE now,
     last_summary_sync |-> IF og # NoRow THEN og.last_summary_sync ELSE now,
     forward_url |-> IF og # NoRow THEN og.forward_url ELSE FALSE,
     notify_on_spam |-> IF og # NoRow THEN og.notify_on_spam ELSE FALSE]

\* models.upsert: INSERT ... ON CONFLICT DO UPDATE of every column, executed
\* in the session's open transaction
upsert(p, jid, row) == [p EXCEPT ![jid] = row]

\* line 82-83: await upsert(session, group); saved_count += 1
UpsertGroupDone ==
    /\ spc = "upsert"
    /\ pending' = upsert(pending, Head(sleft).JID, BuildGroup(Head(sleft), sog))
    /\ saved' = saved + 1
    /\ sog' = NoRow
    /\ SyncEnter(Tail(sleft), skipped)
    /\ UNCHANGED <<senders, pendingSenders, syncHist>>
    /\ UNCHANGED <<now, groups, whVars, schedVars, wmLog, restVars>>

UpsertGroupFail ==
    /\ spc = "upsert"
    /\ ItemFail
    /\ UNCHANGED <<now, groups, whVars, schedVars, wmLog, restVars>>

\* line 89: session.flush()
FlushDone ==
    /\ spc = "flush"
    /\ spc' = "commit"
    /\ UNCHANGED <<senders, sleft, sog, pending, pendingSenders, saved, skipped, syncHist>>
    /\ UNCHANGED <<now, groups, whVars, schedVars, wmLog, restVars>>

FlushFail ==
    /\ spc = "flush"
    /\ Rollback
    /\ UNCHANGED <<now, groups, whVars, schedVars, wmLog, restVars>>

\* line 90: session.commit(): the upserts of the transaction become the
\* stored rows
CommitDone ==
    /\ spc = "commit"
    /\ groups' = [j \in DOMAIN groups \cup {x \in GroupJids : pending[x] # NoRow} |->
                     IF pending[j] # NoRow THEN pending[j] ELSE groups[j]]
    /\ wmLog' = [j \in GroupJids |->
                     IF pending[j] # NoRow
                     THEN wmLog[j] \cup {pending[j].last_summary_sync}
                     ELSE wmLog[j]]
    /\ senders' = senders \cup pendingSenders
    /\ pending' = [g \in GroupJids |-> NoRow]
    /\ pendingSenders' = {}
    /\ spc' = "verify"
    /\ scommitted' = TRUE
    /\ UNCHANGED <<sleft, sog, saved, skipped, sraised>>
    /\ UNCHANGED <<now, whVars, schedVars, restVars>>

CommitFail ==
    /\ spc = "commit"
    /\ Rollback
    /\ UNCHANGED <<now, groups, whVars, schedVars, wmLog, restVars>>

\* line 93-97: the read-back count on a new session
VerifyDone ==
    /\ spc = "verify"
    /\ spc' = "done"
    /\ UNCHANGED <<senders, sleft, sog, pending, pendingSenders, saved, skipped, syncHist>>
    /\ UNCHANGED <<now, groups, whVars, schedVars, wmLog, restVars>>

\* line 93-101: the read-back raised: rollback (nothing is open), re-raise
VerifyFail ==
    /\ spc = "verify"
    /\ Rollback
    /\ UNCHANGED <<now, groups, whVars, schedVars, wmLog, restVars>>

SyncBody ==
    \/ RosterOk
    \/ RosterUnauthorized
    \/ RosterFail
    \/ GetOwnerDone
    \/ GetOwnerFail
    \/ UpsertOwnerDone
    \/ UpsertOwnerFail
    \/ GetGroupDone
    \/ GetGroupFail
    \/ UpsertGroupDone
    \/ UpsertGroupFail
    \/ FlushDone
    \/ FlushFail
    \/ CommitDone
    \/ CommitFail
    \/ VerifyDone
    \/ VerifyFail

SyncStep ==
    \/ SyncStart
    \/ SyncBody

\* the scheduler beside a sync cycle: g1 is managed and due for a summary,
\* g2 is its unmanaged sibling; the roster has g1, a record with a blank
\* JID, and a group that is not stored yet
SyncGroups ==
    [ g1 |-> GroupRow(TRUE,  {"k1"}, TRUE, 1, FALSE, FALSE),
      g2 |-> GroupRow(FALSE, {"k1"}, TRUE, 1, FALSE, FALSE) ]

SyncRoster ==
    << Remote("g1", "name1", "u1"), Remote("", "blank", "u1"),
       Remote("g3", "name3", "u0") >>

InitSchedSync ==
    /\ now = TickStep
    /\ groups = SyncGroups
    /\ messages = EnoughMessages("g1")
    /\ SchedIdle
    /\ WebhookIdle
    /\ SyncIdle
    /\ senders = {"u0"}
    /\ sleft = SyncRoster
    /\ WmLogInit
    /\ RestIdle

NextSchedSync ==
    \/ Tick
    \/ StartRun
    \/ \E g \in GroupJids : UnitStep(g)
    \/ FinishRun
    \/ SyncStep

SpecSchedSync == InitSchedSync /\ [][NextSchedSync]_vars

(***************************************************************************)
(* gather_groups_with_retry: the sync started by the application           *)
(***************************************************************************)
\* main.py line 60: max_retries = 3
MaxRetries == 3

\* line 65: gather_groups is called and awaits the roster
CallGatherGroups ==
    /\ spc' = "roster"
    /\ sleft' = SyncRoster
    /\ sog' = NoRow
    /\ pending' = [g \in GroupJids |-> NoRow]
    /\ pendingSenders' = {}
    /\ saved' = 0
    /\ skipped' = 0
    /\ UNCHANGED <<senders, syncHist>>

\* line 63-65: the first iteration of the loop
WrapperCall ==
    /\ wpc = "idle"
    /\ wpc' = "calling"
    /\ wattempt' = 1
    /\ CallGatherGroups
    /\ UNCHANGED <<now, groups, whVars, schedVars, wmLog>>
    /\ UNCHANGED <<appVars, keepVars>>

\* line 65-66: gather_groups returned: break
WrapperReturned ==
    /\ wpc = "calling"
    /\ spc \in {"done", "unauthenticated"}
    /\ wpc' = "done"
    /\ UNCHANGED <<wattempt, now, groups, whVars, schedVars, syncVars, wmLog>>
    /\ UNCHANGED <<appVars, keepVars>>

\* line 67-78: gather_groups raised.  HTTPStatusError 401: sleep 10 s and
\* call again unless this was the last attempt; HTTPStatusError with
\* another status: re-raise; any other exception: log and break
WrapperCaught ==
    /\ wpc = "calling"
    /\ spc \in {"failed", "failed_http", "failed_401"}
    /\ IF spc = "failed_401"
       THEN IF wattempt < MaxRetries
            THEN /\ wattempt' = wattempt + 1
                 /\ CallGatherGroups
                 /\ UNCHANGED wpc
            ELSE /\ wpc' = "done"
                 /\ UNCHANGED <<wattempt, syncVars>>
       ELSE /\ wpc' = IF spc = "failed_http" THEN "raised" ELSE "done"
            /\ UNCHANGED <<wattempt, syncVars>>
    /\ UNCHANGED <<now, groups, whVars, schedVars, wmLog>>
    /\ UNCHANGED <<appVars, keepVars>>

InitBootstrap ==
    /\ now = 0
    /\ groups = SyncGroups
    /\ messages = {}
    /\ SchedIdle
    /\ WebhookIdle
    /\ SyncIdle
    /\ senders = {"u0"}
    /\ sleft = SyncRoster
    /\ WmLogInit
    /\ RestIdle

NextBootstrap ==
    \/ Tick
    \/ WrapperCall
    \/ WrapperReturned
    \/ WrapperCaught
    \/ SyncBody

SpecBootstrap == InitBootstrap /\ [][NextBootstrap]_vars

(***************************************************************************)
(* extract_message_count.  A text is a sequence of characters; a Hebrew    *)
(* letter is written by its name.                                          *)
(***************************************************************************)
\* the result None
None == [some |-> FALSE, val |-> 0]
Some(n) == [some |-> TRUE, val |-> n]

\* the characters \d matches, with int() of each
DigitVal ==
    [c \in {"0", "1", "2", "3", "4", "5", "6", "7", "8", "9"} |->
        CASE c = "0" -> 0 [] c = "1" -> 1 [] c = "2" -> 2 [] c = "3" -> 3
          [] c = "4" -> 4 [] c = "5" -> 5 [] c = "6" -> 6 [] c = "7" -> 7
          [] c = "8" -> 8 [] c = "9" -> 9]
Digits == DOMAIN DigitVal

\* the characters of the texts that \w does not match
NonWordChars == {" ", "@", ".", "-"}
IsWordChar(c) == c \notin NonWordChars

UpperSeq == <<"A", "B", "C", "D", "E", "F", "G", "H", "I", "J", "K", "L", "M",
              "N", "O", "P", "Q", "R", "S", "T", "U", "V", "W", "X", "Y", "Z">>
LowerSeq == <<"a", "b", "c", "d", "e", "f", "g", "h", "i", "j", "k", "l", "m",
              "n", "o", "p", "q", "r", "s", "t", "u", "v", "w", "x", "y", "z">>

\* str.lower(), character by character
LowerChar(c) ==
    IF \E i \in 1..Len(UpperSeq) : UpperSeq[i] = c
    THEN LowerSeq[CHOOSE i \in 1..Len(UpperSeq) : UpperSeq[i] = c]
    ELSE c
Lower(t) == [i \in 1..Len(t) |-> LowerChar(t[i])]

\* line 52-63: hebrew_numbers, in insertion order (the second 'shmone' key
\* keeps the place of the first)
hebrew_numbers ==
    << [word |-> <<"alef", "het", "tav">>, num |-> 1],
       [word |-> <<"alef", "het", "dalet">>, num |-> 1],
       [word |-> <<"shin", "tav", "yod", "yod", "mem_sofit">>, num |-> 2],
       [word |-> <<"shin", "nun", "yod", "yod", "mem_sofit">>, num |-> 2],
       [word |-> <<"shin", "nun", "yod", "mem_sofit">>, num |-> 2],
       [word |-> <<"shin", "lamed", "vav", "shin">>, num |-> 3],
       [word |-> <<"shin", "lamed", "vav", "shin", "he">>, num |-> 3],
       [word |-> <<"alef", "resh", "bet", "ayin">>, num |-> 4],
       [word |-> <<"alef", "resh", "bet", "ayin", "he">>, num |-> 4],
       [word |-> <<"het", "mem", "shin">>, num |-> 5],
       [word |-> <<"het", "mem", "yod", "shin", "he">>, num |-> 5],
       [word |-> <<"shin", "shin">>, num |-> 6],
       [word |-> <<"shin", "yod", "shin", "he">>, num |-> 6],
       [word |-> <<"shin", "bet", "ayin">>, num |-> 7],
       [word |-> <<"shin", "bet", "ayin", "he">>, num |-> 7],
       [word |-> <<"shin", "mem", "vav", "nun", "he">>, num |-> 8],
       [word |-> <<"tav", "shin", "ayin">>, num |-> 9],
       [word |-> <<"tav", "shin", "ayin", "he">>, num |-> 9],
       [word |-> <<"ayin", "shin", "resh">>, num |-> 10],
       [word |-> <<"ayin", "shin", "resh", "he">>, num |-> 10] >>

\* line 66-69: english_numbers, in insertion order
english_numbers ==
    << [word |-> <<"o", "n", "e">>, num |-> 1],
       [word |-> <<"t", "w", "o">>, num |-> 2],
       [word |-> <<"t", "h", "r", "e", "e">>, num |-> 3],
       [word |-> <<"f", "o", "u", "r">>, num |-> 4],
       [word |-> <<"f", "i", "v", "e">>, num |-> 5],
       [word |-> <<"s", "i", "x">>, num |-> 6],
       [word |-> <<"s", "e", "v", "e", "n">>, num |-> 7],
       [word |-> <<"e", "i", "g", "h", "t">>, num |-> 8],
       [word |-> <<"n", "i", "n", "e">>, num |-> 9],
       [word |-> <<"t", "e", "n">>, num |-> 10] >>

\* `word in text`: word occurs in text as a substring
Contains(t, word) ==
    \E i \in 1..(Len(t) - Len(word) + 1) :
        \A k \in 1..Len(word) : t[i + k - 1] = word[k]

\* the regular expression (?<!@)\b(\d{1,2})\b(?!\d) matches n digits at i
DigitMatchAt(t, i, n) ==
    /\ i + n - 1 <= Len(t)
    /\ \A k \in i..(i + n - 1) : t[k] \in Digits
    /\ (i = 1 \/ t[i - 1] # "@")
    /\ (i = 1 \/ ~IsWordChar(t[i - 1]))
    /\ (i + n > Len(t) \/ ~IsWordChar(t[i + n]))
    /\ (i + n > Len(t) \/ t[i + n] \notin Digits)

\* re.search: the leftmost match, two digits before one; <<>> when none
DigitSearch(t) ==
    LET at == { i \in 1..Len(t) : \E n \in {1, 2} : DigitMatchAt(t, i, n) }
    IN  IF at = {} THEN <<>>
        ELSE LET i == CHOOSE x \in at : \A y \in at : x <= y
                 n == IF DigitMatchAt(t, i, 2) THEN 2 ELSE 1
             IN  SubSeq(t, i, i + n - 1)

\* int() of a run of one or two digits
IntOf(ds) ==
    IF Len(ds) = 1 THEN DigitVal[ds[1]] ELSE 10 * DigitVal[ds[1]] + DigitVal[ds[2]]

\* any number passes the check of line 78
InRangeAny(num) == TRUE

\* line 78: 1 <= num <= 100
InRange(num) == 1 <= num /\ num <= 100

\* line 81-88: the first entry of the dictionary found in the text
FirstWord(dict, t) ==
    LET hits == { i \in 1..Len(dict) : Contains(t, dict[i].word) }
    IN  IF hits = {} THEN None
        ELSE Some(dict[CHOOSE x \in hits : \A y \in hits : x <= y].num)

\* line 40-91
extract_message_count(text) ==
    LET digit_match == DigitSearch(text)
        hebrew == FirstWord(hebrew_numbers, text)
        english == FirstWord(english_numbers, Lower(text))
    IN  IF digit_match # <<>> /\ InRange(IntOf(digit_match))
        THEN Some(IntOf(digit_match))
        ELSE IF hebrew # None THEN hebrew
        ELSE english

\* the words the texts are made of
MaxPieces == 3

Pieces ==
    { <<"5">>, <<"1", "2">>, <<"0">>, <<"1", "0", "0">>,
      <<"0", "5", "2", "1", "2", "3", "4", "5", "6", "7">>,
      <<"@", "7">>, <<"3", "r", "d">>,
      <<"f", "i", "v", "e">>, <<"T", "e", "n">>,
      <<"s", "o", "m", "e", "o", "n", "e">>,
      <<"l", "a", "s", "t">>,
      <<"shin", "lamed", "vav", "shin">>,
      <<"ayin", "shin", "resh", "yod", "mem_sofit">>,
      <<"samekh", "kaf", "mem_sofit">> }

\* the pieces joined by single spaces
RECURSIVE Join(_)
Join(ps) ==
    IF ps = <<>> THEN <<>>
    ELSE IF Len(ps) = 1 THEN ps[1]
    ELSE ps[1] \o <<" ">> \o Join(Tail(ps))

Texts == { Join(ps) : ps \in UNION { [1..n -> Pieces] : n \in 0..MaxPieces } }

\* the handler calls extract_message_count on the text of the message
ExtractCall ==
    /\ eresult = NotCalled
    /\ etext # <<>>
    /\ eresult' = extract_message_count(etext)
    /\ UNCHANGED <<routeVars, etext, now, coreVars, sumVars>>

InitExtract ==
    /\ now = 0
    /\ groups = WebhookGroups
    /\ WebhookIdle
    /\ SchedIdle
    /\ messages = {}
    /\ SyncIdle
    /\ senders = {}
    /\ sleft = <<>>
    /\ WmLogInit
    /\ BootIdle
    /\ SummarizeIdle
    /\ RouteIdle
    /\ KeepIdle
    /\ etext \in Texts \ {<<>>}
    /\ eresult = NotCalled

NextExtract == ExtractCall

SpecExtract == InitExtract /\ [][NextExtract]_vars

(***************************************************************************)
(* Router.summarize (handler/router.py): the on-demand summary.            *)
(***************************************************************************)

\* message.chat_jid: the chat the request came from
chat_jid == "g1"
\* timedelta(hours=24), in units of the clock
DayLength == 24
\* .limit(30)
QueryLimit == 30

\* Group.get_related_community_groups of message.group: the other groups
\* sharing a key with it
RelatedOfChat ==
    { x \in DOMAIN groups \ {chat_jid} :
          groups[x].community_keys \cap groups[chat_jid].community_keys # {} }

\* line 149-153: the messages of the group that are not older than 24 hours
RecentMessages(g) ==
    { m \in messages : /\ m.group_jid = g
                       /\ m.timestamp >= now - DayLength }

Smaller(a, b) == IF a <= b THEN a ELSE b

\* line 154-161: len(group_messages) after the limit of the query and the
\* cut to the requested count (`if requested_count`)
GroupMessages(g) ==
    LET n == Smaller(Cardinality(RecentMessages(g)), QueryLimit)
    IN  IF eresult.some /\ eresult.val # 0 THEN Smaller(n, eresult.val) ELSE n

SkipsAnyOptedOut(g) == ~groups[g].send_summary_to_self

\* line 145: the requesting group is left out when it opted out
SkipsGroup(g) ==
    g = chat_jid /\ ~groups[g].send_summary_to_self

\* line 142-146: the loop runs on to the next group it has to query
RECURSIVE DropSkipped(_)
DropSkipped(q) ==
    IF q # <<>> /\ SkipsGroup(Head(q)) THEN DropSkipped(Tail(q)) ELSE q

\* the top of the loop: the query of the next group, or the reply
LoopTop(q) ==
    /\ rqueue' = DropSkipped(q)
    /\ rpc' = IF DropSkipped(q) = <<>> THEN "send" ELSE "fetch"

\* line 132-137 / 216-226: the count is extracted and the branch is chosen
SummarizeCall ==
    /\ rpc = "idle"
    /\ eresult' = extract_message_count(etext)
    /\ rpc' = IF groups[chat_jid].community_keys # {} THEN "related"
              ELSE "single_fetch"
    /\ UNCHANGED <<routeVars, etext, now, coreVars, rqueue, rfetched, summaries, rfailed,
                   replies>>

\* line 137-146: the linked groups are read, all_groups is built
RelatedDone ==
    /\ rpc = "related"
    /\ \E order \in SeqsOf(RelatedOfChat) : LoopTop(<<chat_jid>> \o order)
    /\ UNCHANGED <<routeVars, extVars, now, coreVars, rfetched, summaries, rfailed, replies>>

\* line 156-165, 142-146: the messages of the group are read; a group with
\* none is passed over
FetchDone ==
    /\ rpc = "fetch"
    /\ rfetched' = GroupMessages(Head(rqueue))
    /\ IF GroupMessages(Head(rqueue)) < 1
       THEN LoopTop(Tail(rqueue))
       ELSE rpc' = "agent" /\ UNCHANGED rqueue
    /\ UNCHANGED <<routeVars, extVars, now, coreVars, summaries, rfailed, replies>>

\* line 194-195, 142-146: the agent returned, the block is appended
AgentDone ==
    /\ rpc = "agent"
    /\ summaries' = Append(summaries, Head(rqueue))
    /\ LoopTop(Tail(rqueue))
    /\ UNCHANGED <<routeVars, extVars, now, coreVars, rfetched, rfailed, replies>>

AgentFailDropsBlocks ==
    /\ rpc = "agent"
    /\ rfailed' = rfailed \cup {Head(rqueue)}
    /\ summaries' = <<>>
    /\ LoopTop(Tail(rqueue))
    /\ UNCHANGED <<routeVars, extVars, now, coreVars, rfetched, replies>>

\* line 196-197, 142-146: the agent raised, the error is logged
AgentFail ==
    /\ rpc = "agent"
    /\ rfailed' = rfailed \cup {Head(rqueue)}
    /\ LoopTop(Tail(rqueue))
    /\ UNCHANGED <<routeVars, extVars, now, coreVars, rfetched, summaries, replies>>

\* line 200-212: the text of the reply
Reply(s) ==
    IF s # <<>> THEN [to |-> chat_jid, kind |-> "combined", blocks |-> s]
    ELSE [to |-> chat_jid, kind |-> "nothing", blocks |-> <<>>]

\* line 200-212: the reply is sent
SendDone ==
    /\ rpc = "send"
    /\ replies' = Append(replies, Reply(summaries))
    /\ rpc' = "done"
    /\ UNCHANGED <<routeVars, extVars, now, coreVars, rqueue, rfetched, summaries, rfailed>>

\* line 137, 156, 202-212: the lookup, a query or send_message raised; none
\* of them is inside a try
CommunityRaise ==
    /\ rpc \in {"related", "fetch", "send"}
    /\ rpc' = "raised"
    /\ UNCHANGED <<routeVars, extVars, now, coreVars, rqueue, rfetched, summaries, rfailed,
                   replies>>

\* line 226-231: a group without community keys, its messages are read
SingleFetchDone ==
    /\ rpc = "single_fetch"
    /\ rfetched' = GroupMessages(chat_jid)
    /\ rpc' = "single_agent"
    /\ UNCHANGED <<routeVars, extVars, now, coreVars, rqueue, summaries, rfailed, replies>>

\* line 260-262: the agent returned
SingleAgentDone ==
    /\ rpc = "single_agent"
    /\ rpc' = "single_send"
    /\ UNCHANGED <<routeVars, extVars, now, coreVars, rqueue, rfetched, summaries, rfailed,
                   replies>>

\* line 263-267: the summary is sent
SingleSendDone ==
    /\ rpc = "single_send"
    /\ replies' = Append(replies, [to |-> chat_jid, kind |-> "single",
                                   blocks |-> <<chat_jid>>])
    /\ rpc' = "done"
    /\ UNCHANGED <<routeVars, extVars, now, coreVars, rqueue, rfetched, summaries, rfailed>>

\* line 226, 260, 263: the query, the agent or send_message raised
SingleRaise ==
    /\ rpc \in {"single_fetch", "single_agent", "single_send"}
    /\ rpc' = "raised"
    /\ UNCHANGED <<routeVars, extVars, now, coreVars, rqueue, rfetched, summaries, rfailed,
                   replies>>

\* the texts of the requests: without a count, and asking for one message
SummarizeTexts ==
    { <<"l", "a", "s", "t">>, <<"l", "a", "s", "t", " ", "1">> }

\* the rows of a group: two messages at the edge of the 24 hours, or one
\* message just older than that
RowsOf(g, recent) ==
    IF recent THEN Batch(g, 0 - DayLength, "u1", 2)
    ELSE Batch(g, 0 - DayLength - 1, "u1", 1)

\* the requesting group g1, with or without keys, opted in or out; g2, linked
\* and opted out; g3, linked or not; each with or without recent messages
InitSummarize ==
    /\ now = 0
    /\ \E self1 \in BOOLEAN, keys1 \in {{}, {"k1"}}, keys3 \in {{"k1"}, {"k2"}} :
           groups = [g \in GroupJids |->
               IF g = "g1" THEN GroupRow(TRUE, keys1, self1, 0, FALSE, FALSE)
               ELSE IF g = "g2" THEN GroupRow(TRUE, {"k1"}, FALSE, 0, FALSE, FALSE)
               ELSE GroupRow(FALSE, keys3, TRUE, 0, FALSE, FALSE)]
    /\ \E recent \in [GroupJids -> BOOLEAN] :
           messages = UNION { RowsOf(g, recent[g]) : g \in GroupJids }
    /\ WebhookIdle
    /\ SchedIdle
    /\ SyncIdle
    /\ senders = {}
    /\ sleft = <<>>
    /\ WmLogInit
    /\ BootIdle
    /\ KeepIdle
    /\ SummarizeIdle
    /\ RouteIdle
    /\ etext \in SummarizeTexts
    /\ eresult = NotCalled

NextSummarize ==
    \/ SummarizeCall
    \/ RelatedDone
    \/ FetchDone
    \/ AgentDone
    \/ AgentFail
    \/ SendDone
    \/ CommunityRaise
    \/ SingleFetchDone
    \/ SingleAgentDone
    \/ SingleSendDone
    \/ SingleRaise

SpecSummarize == InitSummarize /\ [][NextSummarize]_vars

(***************************************************************************)
(* Router.__call__ (handler/router.py): classification and dispatch.       *)
(***************************************************************************)

\* IntentEnum
Intents == {"summarize", "ask_question", "about", "other"}

\* line 108-116: the method called for each intent
ActionOf ==
    [ summarize |-> "summarize", ask_question |-> "ask_knowledge_base",
      about |-> "about", other |-> "default_response" ]

\* line 107, 119-125: Router.__call__ awaits _route, which awaits agent.run
RouterCall ==
    /\ rpc = "idle"
    /\ rpc' = "classify"
    /\ classifyCalls' = classifyCalls + 1
    /\ UNCHANGED <<rintent, dispatched, extVars, now, coreVars, rqueue, rfetched,
                   summaries, rfailed, replies>>

\* line 108-116, 132-137: the classifier returned an intent; the action for
\* it is called and runs up to its first await
ClassifyDone ==
    /\ rpc = "classify"
    /\ \E i \in Intents :
           /\ rintent' = i
           /\ dispatched' = Append(dispatched, ActionOf[i])
           /\ IF i = "summarize"
              THEN /\ eresult' = extract_message_count(etext)
                   /\ rpc' = IF groups[chat_jid].community_keys # {} THEN "related"
                             ELSE "single_fetch"
              ELSE /\ rpc' = ActionOf[i]
                   /\ UNCHANGED eresult
    /\ UNCHANGED <<classifyCalls, etext, now, coreVars, rqueue, rfetched, summaries,
                   rfailed, replies>>

ClassifyFailFallsBack ==
    /\ rpc = "classify"
    /\ rintent' = "failed"
    /\ dispatched' = Append(dispatched, "default_response")
    /\ rpc' = "default_response"
    /\ UNCHANGED <<classifyCalls, extVars, now, coreVars, rqueue, rfetched,
                   summaries, rfailed, replies>>

\* line 107, 125: agent.run raised; nothing catches it in _route or __call__
ClassifyFail ==
    /\ rpc = "classify"
    /\ rintent' = "failed"
    /\ rpc' = "raised"
    /\ UNCHANGED <<classifyCalls, dispatched, extVars, now, coreVars, rqueue, rfetched,
                   summaries, rfailed, replies>>

\* line 112-116, 269-281: the knowledge base answered, or the fixed reply
\* of about / default_response was sent
ActionDone ==
    /\ rpc \in {"ask_knowledge_base", "about", "default_response"}
    /\ replies' = Append(replies, [to |-> chat_jid, kind |-> rpc, blocks |-> <<>>])
    /\ rpc' = "done"
    /\ UNCHANGED <<routeVars, extVars, now, coreVars, rqueue, rfetched, summaries,
                   rfailed>>

\* line 112-116: the action raised
ActionRaise ==
    /\ rpc \in {"ask_knowledge_base", "about", "default_response"}
    /\ rpc' = "raised"
    /\ UNCHANGED <<routeVars, extVars, now, coreVars, rqueue, rfetched, summaries,
                   rfailed, replies>>

NextRouter ==
    \/ RouterCall
    \/ ClassifyDone
    \/ ClassifyFail
    \/ ActionDone
    \/ ActionRaise
    \/ RelatedDone
    \/ FetchDone
    \/ AgentDone
    \/ AgentFail
    \/ SendDone
    \/ CommunityRaise
    \/ SingleFetchDone
    \/ SingleAgentDone
    \/ SingleSendDone
    \/ SingleRaise

SpecRouter == InitSummarize /\ [][NextRouter]_vars

(***************************************************************************)
(* whatsapp_keepalive (app/main.py): the keep-alive task.                  *)
(***************************************************************************)

\* the probes a behaviour counts; ping_count stays at the bound afterwards
MaxPings == 3
\* the most devices get_devices reports
MaxDevices == 1
\* None, for a time or a count
Unset == -1

\* line 33, 97: app.state.whatsapp is set before the task is created
HasClient == TRUE

\* line 112: ping_count += 1
NextPing == IF ping_count < MaxPings THEN ping_count + 1 ELSE ping_count

\* the awaits of asyncio.sleep inside the loop
Sleeping == {"sleep45", "sleep60"}

\* line 97-103: the task starts and waits the initial delay
KeepaliveStart ==
    /\ kpc = "idle"
    /\ kpc' = IF HasClient THEN "initial_sleep" ELSE "returned"
    /\ UNCHANGED <<ping_count, kout, last_successful_ping, devices_count,
                   session_start_time>>
    /\ UNCHANGED <<now, groups, whVars, schedVars, syncVars, wmLog, bootVars, appVars>>

\* line 103-114: the initial delay is over, the first probe is sent
InitialDelayDone ==
    /\ kpc = "initial_sleep"
    /\ ping_count' = NextPing
    /\ session_start_time' = now
    /\ last_successful_ping' = now
    /\ devices_count' = Unset
    /\ kpc' = "probe"
    /\ UNCHANGED kout
    /\ UNCHANGED <<now, groups, whVars, schedVars, syncVars, wmLog, bootVars, appVars>>

\* line 114-119: get_devices returned
ProbeOk ==
    /\ kpc = "probe"
    /\ \E n \in 0..MaxDevices : devices_count' = n
    /\ last_successful_ping' = now
    /\ kout' = "ok"
    /\ kpc' = "sleep45"
    /\ UNCHANGED <<ping_count, session_start_time>>
    /\ UNCHANGED <<now, groups, whVars, schedVars, syncVars, wmLog, bootVars, appVars>>

ProbeUnauthorizedAsOther ==
    /\ kpc = "probe"
    /\ kout' = "unauthorized"
    /\ kpc' = "sleep45"
    /\ UNCHANGED <<ping_count, last_successful_ping, devices_count,
                   session_start_time>>
    /\ UNCHANGED <<now, groups, whVars, schedVars, syncVars, wmLog, bootVars, appVars>>

\* line 120-139: get_devices raised HTTPStatusError with status 401
ProbeUnauthorized ==
    /\ kpc = "probe"
    /\ session_start_time' = now
    /\ last_successful_ping' = Unset
    /\ kout' = "unauthorized"
    /\ kpc' = "sleep60"
    /\ UNCHANGED <<ping_count, devices_count>>
    /\ UNCHANGED <<now, groups, whVars, schedVars, syncVars, wmLog, bootVars, appVars>>

\* line 140-142: get_devices raised HTTPStatusError with another status
ProbeHttpError ==
    /\ kpc = "probe"
    /\ kout' = "http_error"
    /\ kpc' = "sleep45"
    /\ UNCHANGED <<ping_count, last_successful_ping, devices_count,
                   session_start_time>>
    /\ UNCHANGED <<now, groups, whVars, schedVars, syncVars, wmLog, bootVars, appVars>>

ProbeErrorEndsTask ==
    /\ kpc = "probe"
    /\ kout' = "error"
    /\ kpc' = "returned"
    /\ UNCHANGED <<ping_count, last_successful_ping, devices_count,
                   session_start_time>>
    /\ UNCHANGED <<now, groups, whVars, schedVars, syncVars, wmLog, bootVars, appVars>>

\* line 143-152: get_devices, or the reading of its response, raised
\* another exception
ProbeError ==
    /\ kpc = "probe"
    /\ kout' = "error"
    /\ kpc' = "sleep45"
    /\ UNCHANGED <<ping_count, last_successful_ping, devices_count,
                   session_start_time>>
    /\ UNCHANGED <<now, groups, whVars, schedVars, syncVars, wmLog, bootVars, appVars>>

\* line 110-114: the sleep is over, the loop sends the next probe
SleepDone ==
    /\ kpc \in Sleeping
    /\ ping_count' = NextPing
    /\ kpc' = "probe"
    /\ UNCHANGED <<kout, last_successful_ping, devices_count, session_start_time>>
    /\ UNCHANGED <<now, groups, whVars, schedVars, syncVars, wmLog, bootVars, appVars>>

\* a step of the task
KeepaliveStep ==
    \/ KeepaliveStart
    \/ InitialDelayDone
    \/ ProbeOk
    \/ ProbeUnauthorized
    \/ ProbeHttpError
    \/ ProbeError
    \/ SleepDone

InitKeepalive ==
    /\ now = 0
    /\ groups = WebhookGroups
    /\ WebhookIdle
    /\ SchedIdle
    /\ messages = {}
    /\ SyncIdle
    /\ senders = {}
    /\ sleft = <<>>
    /\ WmLogInit
    /\ RestIdle

NextKeepalive ==
    \/ Tick
    \/ KeepaliveStart
    \/ InitialDelayDone
    \/ ProbeOk
    \/ ProbeUnauthorized
    \/ ProbeHttpError
    \/ ProbeError
    \/ SleepDone

SpecKeepalive == InitKeepalive /\ [][NextKeepalive]_vars

\* the event loop resumes the task whenever its sleep is over or its
\* request has returned or raised
FairSpecKeepalive ==
    /\ SpecKeepalive
    /\ WF_vars(KeepaliveStep)

(***************************************************************************)
(* Claims about the processing guard and the webhook.                      *)
(***************************************************************************)

\* C1 (as stated): a dedupe check of an id that was inserted less than ttl
\* ago is rejected, whatever other ids were inserted in between; a check of
\* an id never inserted, or inserted at least ttl ago, is admitted.
C1_AdmitTwiceAnyTraffic ==
    lastCall.key # "none" =>
        /\ (lastCall.known /\ lastCall.age < ttl) => ~lastCall.ok
        /\ (~lastCall.known \/ lastCall.age >= ttl) => lastCall.ok

\* C1 (amended): a dedupe check of an id that was inserted less than ttl ago
\* is rejected provided fewer than maxsize other ids were inserted since;
\* a check of an id never inserted, or inserted at least ttl ago, is admitted.
C1_AdmitTwice ==
    lastCall.key # "none" =>
        /\ (lastCall.known /\ lastCall.age < ttl /\ lastCall.others < maxsize)
               => ~lastCall.ok
        /\ (~lastCall.known \/ lastCall.age >= ttl) => lastCall.ok

\* C1 witness: an id was admitted, re-admitted once its window had elapsed,
\* and then rejected inside the new window.
C1_Witness ==
    \E m \in MsgIds :
        /\ lastCall.key = m /\ lastCall.known /\ ~lastCall.ok
        /\ lastCall.age < ttl
        /\ firstIns[m] # NoIns
        /\ ins[m].at >= firstIns[m].at + ttl

\* C2 (as stated): inside the window opened by the first insertion of a
\* message id, the router and the spam handler have each been invoked at
\* most once for that id.
\* insertions of other ids since the first insertion of m
OthersSinceFirst(m) == (inserted - firstIns[m].n) - (insCount[m] - 1)

C2_AtMostOnceAnyTraffic ==
    \A m \in MsgIds :
        (firstIns[m] # NoIns /\ now < firstIns[m].at + ttl)
            => (routerCalls[m] <= 1 /\ spamCalls[m] <= 1)

\* C2 (amended): inside the window opened by the first insertion of a
\* message id, and while fewer than maxsize other ids were inserted since,
\* the router and the spam handler have each been invoked at most once for
\* that id, whatever the interleaving of the deliveries.
C2_AtMostOnce ==
    \A m \in MsgIds :
        (/\ firstIns[m] # NoIns
         /\ now < firstIns[m].at + ttl
         /\ OthersSinceFirst(m) < maxsize)
            => (routerCalls[m] <= 1 /\ spamCalls[m] <= 1)

\* C2 witness: a redelivery of m1 was rejected while the delivery that was
\* admitted is still suspended in the spam handler, after its router call.
C2_Witness ==
    /\ \E h \in Deliveries : msg[h] = "m1" /\ pc[h] = "spam"
    /\ lastCall.key = "m1" /\ ~lastCall.ok
    /\ now < firstIns["m1"].at + ttl
    /\ routerCalls["m1"] = 1 /\ spamCalls["m1"] = 1

\* C3 (as stated): every webhook call is answered with "ok".
C3_AlwaysOk == lastResponse \in {"none", "ok"}

\* C15: a delivery of a message whose group is stored with managed = false
\* is never suspended in the forward call, the router or the spam handler,
\* and its id is never counted as routed, notified or inserted into the
\* processing cache.
C15_UnmanagedInert ==
    /\ \A h \in Deliveries :
           (msg[h] \in MsgIds /\ Unmanaged(msg[h])) => pc[h] \in {"store", "jid"}
    /\ \A m \in MsgIds :
           (HasGroup(m) /\ ~GroupOf(m).managed) =>
               /\ routerCalls[m] = 0 /\ spamCalls[m] = 0
               /\ ins[m] = NoIns /\ insCount[m] = 0
               /\ \A i \in 1..Len(processing_cache) : processing_cache[i].key # m

\* C15 witness: the unmanaged group has a forward URL and spam
\* notification; a first delivery was answered without any insertion, and
\* a delivery of m4 (text, mention, invite link) is past the forward
\* decision and about to reach the managed check.
C15_Witness ==
    /\ groups["g2"].forward_url /\ groups["g2"].notify_on_spam
    /\ pc[1] = "done" /\ lastResponse = "ok" /\ inserted = 0
    /\ msg[2] = "m4" /\ pc[2] = "jid"

(***************************************************************************)
(* Claims about the summarization scheduler.                               *)
(***************************************************************************)

\* C4 (as stated): the stored last_summary_sync of every group is greater
\* than or equal to every value that was stored for it before, under any
\* interleaving of the scheduler units and a sync cycle.
C4_NeverBackward ==
    \A g \in DOMAIN groups :
        \A v \in wmLog[g] : groups[g].last_summary_sync >= v

\* C5 (as stated): a unit that returned for a group with at least 5
\* qualifying messages has stored a last_summary_sync later than the one it
\* started from, whatever the outcome of the summarization.
C5_AdvancedAnyOutcome ==
    \A g \in GroupJids :
        (upc[g] = "done" /\ fetched[g] >= MinMessages)
            => /\ groups[g].last_summary_sync = uwm[g]
               /\ groups[g].last_summary_sync > usnap[g].last_summary_sync

\* C6: a unit whose summary was produced and one of whose sends failed goes
\* on to the commit with the time of the failure as the new watermark, and
\* once it has returned the stored last_summary_sync is that time, later
\* than the old value.
C6_AdvancedAfterSendFailure ==
    \A g \in GroupJids :
        outcome[g] = "send_failed" =>
            /\ upc[g] \in {"commit", "done"}
            /\ fetched[g] >= MinMessages /\ uattempts[g] >= 1
            /\ usnap[g].last_summary_sync < uwm[g] /\ uwm[g] <= now
            /\ upc[g] = "done" => groups[g].last_summary_sync = uwm[g]

\* C6 witness: the send to the group itself went through, the send to a
\* sibling failed, and the unit has returned with the watermark advanced.
C6_Witness ==
    \E g \in GroupJids :
        /\ outcome[g] = "send_failed" /\ upc[g] = "done"
        /\ sentTo[g] = {g} /\ tried[g] # sentTo[g]
        /\ groups[g].last_summary_sync = now

\* C7: a unit that fetched fewer than 5 qualifying messages has returned
\* without a summarization attempt, without a send, with the stored
\* last_summary_sync as it found it, and the same messages still qualify.
C7_TooFewLeavesAlone ==
    \A g \in GroupJids :
        (/\ upc[g] \notin {"none", "jid", "fetch"}
         /\ outcome[g] \notin {"no_jid", "raised"}
         /\ fetched[g] < MinMessages)
            => /\ outcome[g] = "too_few" /\ upc[g] = "done"
               /\ uattempts[g] = 0
               /\ tried[g] = {} /\ sentTo[g] = {}
               /\ groups[g].last_summary_sync = usnap[g].last_summary_sync
               /\ Cardinality(Qualifying(g, groups[g].last_summary_sync)) = fetched[g]

\* C7 witness: the run is over; one unit found one message less than the
\* threshold and the other unit sent its summary.
C7_Witness ==
    /\ run = "done"
    /\ \E g, h \in GroupJids :
           /\ outcome[g] = "too_few" /\ fetched[g] = MinMessages - 1
           /\ outcome[h] = "sent" /\ upc[h] = "done"

\* C8 (as stated): in a unit whose summary was produced and whose lookup of
\* the siblings did not fail, a send was attempted to every eligible
\* recipient, whether or not a send failed.
C8_EverySendAttempted ==
    \A g \in GroupJids :
        (upc[g] \in {"commit", "done"} /\ outcome[g] \in {"sent", "send_failed"})
            => tried[g] = EligibleRecipients(g)

\* a step of the unit itself failed
OwnFailure(g) ==
    outcome[g] \in {"no_jid", "raised", "summarize_failed", "send_failed",
                    "lookup_failed"}

\* C9: when the run is over every unit has returned or raised, the units
\* that raised are the recorded errors, and every unit with at least 5
\* qualifying messages and no failure of its own produced its summary and
\* sent it to all its eligible recipients, whatever happened in the others.
C9_UnitsIsolated ==
    run = "done" =>
        /\ \A g \in GroupJids : Settled(g)
        /\ errs = { g \in GroupJids : upc[g] = "raised" }
        /\ \A g \in GroupJids :
               (upc[g] # "none" /\ fetched[g] >= MinMessages /\ ~OwnFailure(g))
                   => /\ uattempts[g] >= 1
                      /\ outcome[g] = "sent"
                      /\ sentTo[g] = EligibleRecipients(g)

\* C9 witness: the run is over; one unit raised or lost its summarization,
\* the other sent its summary to itself and to both siblings.
C9_Witness ==
    /\ run = "done"
    /\ \E a, b \in GroupJids :
           /\ outcome[a] \in {"raised", "summarize_failed"}
           /\ outcome[a] = "raised" => a \in errs
           /\ outcome[b] = "sent"
           /\ sentTo[b] = EligibleRecipients(b)
           /\ Cardinality(sentTo[b]) = 3

\* the event loop runs every unit that can take a step, and gather returns
\* once it can
FairSpecSched ==
    /\ SpecSched
    /\ \A g \in GroupJids : WF_vars(UnitStep(g))
    /\ WF_vars(FinishRun)

\* C10: summarization is attempted at most MaxAttempts times in a unit, a
\* unit that lost its summarization gave up after exactly that many
\* attempts, a run that is over has every unit returned or raised, and
\* every run that started is eventually over.
C10_RunTerminates ==
    /\ [](/\ \A g \in GroupJids :
                /\ uattempts[g] <= MaxAttempts
                /\ outcome[g] = "summarize_failed"
                       => (uattempts[g] = MaxAttempts /\ upc[g] = "done")
          /\ run = "done" => \A g \in GroupJids : Settled(g))
    /\ (run = "running") ~> (run = "done")

\* C10 witness: the run is over and a unit gave up after MaxAttempts failed
\* attempts while the other was summarized at its last attempt.
C10_Witness ==
    /\ run = "done"
    /\ \E g, h \in GroupJids :
           /\ outcome[g] = "summarize_failed" /\ uattempts[g] = MaxAttempts
           /\ outcome[h] = "sent" /\ uattempts[h] = MaxAttempts

(***************************************************************************)
(* Claims about the roster sync.                                           *)
(***************************************************************************)

\* the policy fields of a Group row
Policy(row) ==
    [managed |-> row.managed, community_keys |-> row.community_keys,
     forward_url |-> row.forward_url,
     send_summary_to_self |-> row.send_summary_to_self,
     notify_on_spam |-> row.notify_on_spam]

\* C11 (as stated): every group that was stored before the sync keeps its
\* managed, community_keys, forward_url, send_summary_to_self and
\* notify_on_spam through the sync.
C11_PolicyPreserved ==
    \A g \in DOMAIN SyncGroups : Policy(groups[g]) = Policy(SyncGroups[g])

\* the records of the roster that have a JID
ValidRecords ==
    { SyncRoster[i] : i \in { j \in 1..Len(SyncRoster) : ~BlankJid(SyncRoster[j].JID) } }

\* C12: once the loop is over every record of the roster was counted once,
\* as saved or as skipped, the skipped ones being the blank records and
\* those whose processing raised; every other record is upserted in the
\* transaction and is a stored row once the commit has returned.  A cycle
\* that fails with records left failed at the roster call.
C12_BadItemsSkipped ==
    /\ sleft = <<>> =>
           /\ saved + skipped = Len(SyncRoster)
           /\ skipped = (Len(SyncRoster) - Cardinality(ValidRecords))
                            + Cardinality(sraised)
    /\ (sleft = <<>> /\ spc \in {"flush", "commit"}) =>
           \A r \in ValidRecords :
               r.JID \notin sraised =>
                   (pending[r.JID] # NoRow /\ pending[r.JID].group_name = r.Name)
    /\ scommitted =>
           \A r \in ValidRecords :
               r.JID \notin sraised =>
                   (r.JID \in DOMAIN groups /\ groups[r.JID].group_name = r.Name)
    /\ (spc = "failed" /\ sleft # <<>>) => saved + skipped = 0

\* C12 witness: the cycle is over; the first record raised, the second was
\* blank, and the third was saved and is stored.
C12_Witness ==
    /\ spc = "done" /\ scommitted
    /\ sraised = {"g1"} /\ skipped = 2 /\ saved = 1
    /\ "g3" \in DOMAIN groups /\ groups["g3"].group_name = "name3"
    /\ groups["g1"].group_name = "name0"

\* a Group row without its watermark, which the scheduler also writes
SyncFields(row) == [row EXCEPT !.last_summary_sync = 0]

\* none of the cycle's writes is stored
NothingPersisted ==
    /\ senders = {"u0"}
    /\ DOMAIN groups = DOMAIN SyncGroups
    /\ \A g \in DOMAIN SyncGroups : SyncFields(groups[g]) = SyncFields(SyncGroups[g])

\* C13 (as stated): a cycle that raised has stored none of its group or
\* sender writes.
C13_RaisedPersistsNothing == spc = "failed" => NothingPersisted

\* C13 (amended): a cycle that raised has no open write left, and if it
\* raised before its commit returned none of its group or sender writes is
\* stored.
C13_RollbackBeforeCommit ==
    spc = "failed" =>
        /\ pending = [g \in GroupJids |-> NoRow]
        /\ pendingSenders = {}
        /\ ~scommitted => NothingPersisted

\* C13 witness: both valid records were upserted, the cycle raised at flush
\* or commit, and nothing of it is stored.
C13_Witness ==
    /\ spc = "failed" /\ ~scommitted
    /\ saved = 2 /\ sleft = <<>>
    /\ "g3" \notin DOMAIN groups /\ "u1" \notin senders

\* C14 (as stated): a wrapper that ended while the gateway was still not
\* authenticated made MaxRetries attempts.
C14_RetriesWhenUnauthenticated ==
    (wpc = "done" /\ spc = "unauthenticated") => wattempt = MaxRetries

(***************************************************************************)
(* Claims about extract_message_count.                                     *)
(***************************************************************************)

\* word stands in the text as a word of its own
WholeWord(t, word) ==
    \E i \in 1..(Len(t) - Len(word) + 1) :
        /\ \A k \in 1..Len(word) : t[i + k - 1] = word[k]
        /\ (i = 1 \/ ~IsWordChar(t[i - 1]))
        /\ (i + Len(word) > Len(t) \/ ~IsWordChar(t[i + Len(word)]))

\* the numbers of the words of a dictionary that stand in the text
NumberWords(dict, t) ==
    { dict[i].num : i \in { j \in 1..Len(dict) : WholeWord(t, dict[j].word) } }

\* the text has a standalone number of one or two digits that is at least 1
HasNumber(t) == DigitSearch(t) # <<>> /\ IntOf(DigitSearch(t)) >= 1

\* C18 (as stated): a standalone number of one or two digits is returned
\* whatever words the text has; otherwise the number of a Hebrew number
\* word of the text; otherwise the number of an English number word of the
\* text; and None when the text has no such number and no number word.
C18_Precedence ==
    eresult # NotCalled =>
        LET he == NumberWords(hebrew_numbers, etext)
            en == NumberWords(english_numbers, Lower(etext))
        IN  /\ HasNumber(etext) => eresult = Some(IntOf(DigitSearch(etext)))
            /\ (~HasNumber(etext) /\ he # {}) =>
                   (eresult.some /\ eresult.val \in he)
            /\ (~HasNumber(etext) /\ he = {} /\ en # {}) =>
                   (eresult.some /\ eresult.val \in en)
            /\ (~HasNumber(etext) /\ he = {} /\ en = {}) => eresult = None

\* C19: extract_message_count returns None or an integer from 1 to 100.
C19_NoneOrPositive ==
    eresult # NotCalled =>
        \/ eresult = None
        \/ eresult.some /\ 1 <= eresult.val /\ eresult.val <= 100

\* C19 witness: the text has the standalone number 0 and no number word,
\* and None was returned.
C19_Witness ==
    /\ eresult = None
    /\ DigitSearch(etext) = <<"0">>

(***************************************************************************)
(* Claims about the on-demand summary.                                     *)
(***************************************************************************)

\* the group has a message of the last 24 hours
HasRecent(g) == RecentMessages(g) # {}

\* the groups a reply has a block for
BlockSet(r) == { r.blocks[i] : i \in 1..Len(r.blocks) }

\* C16: in the reply of an on-demand summary for a group with community
\* keys, every linked group with a message of the last 24 hours has one
\* block, whatever its own send_summary_to_self, and the requesting group
\* has a block exactly when its send_summary_to_self is true and it has such
\* a message (a group whose summarization call failed has no block).
C16_SelfExclusionScopedToChat ==
    (rpc = "done" /\ groups[chat_jid].community_keys # {}) =>
        LET blocks == BlockSet(replies[1])
        IN  /\ Len(replies[1].blocks) = Cardinality(blocks)
            /\ blocks \subseteq RelatedOfChat \cup {chat_jid}
            /\ \A g \in RelatedOfChat :
                   g \in blocks <=> (HasRecent(g) /\ g \notin rfailed)
            /\ chat_jid \in blocks <=>
                   /\ groups[chat_jid].send_summary_to_self
                   /\ HasRecent(chat_jid)
                   /\ chat_jid \notin rfailed

\* C16 witness: the requesting group opted out and has recent messages; the
\* reply has a block for the linked g2, which opted out too, and for g3, and
\* none for the requesting group.
C16_Witness ==
    /\ rpc = "done"
    /\ ~groups[chat_jid].send_summary_to_self
    /\ ~groups["g2"].send_summary_to_self
    /\ HasRecent(chat_jid)
    /\ rfailed = {}
    /\ Len(replies) = 1
    /\ BlockSet(replies[1]) = {"g2", "g3"}

\* the groups whose summarization the handler has to attempt
Attempted ==
    { g \in RelatedOfChat \cup
            (IF groups[chat_jid].send_summary_to_self THEN {chat_jid} ELSE {}) :
          HasRecent(g) }

\* C17: an on-demand summary for a group with community keys sends at most
\* one reply, and when it has returned it has sent exactly one, to the
\* requesting chat: the blocks of the groups whose summarization did not
\* fail, in the order produced, or the fixed reply when there is no block.
C17_OneReplyDespiteFailures ==
    groups[chat_jid].community_keys # {} =>
        /\ Len(replies) <= 1
        /\ rpc = "done" =>
               /\ Len(replies) = 1
               /\ replies[1].to = chat_jid
               /\ replies[1].blocks = summaries
               /\ BlockSet(replies[1]) = Attempted \ rfailed
               /\ replies[1].kind =
                      IF Attempted \ rfailed = {} THEN "nothing" ELSE "combined"

\* C17 witness: the call for one group failed, the reply has the block of
\* another group.
C17_Witness ==
    /\ rpc = "done"
    /\ groups[chat_jid].community_keys # {}
    /\ rfailed # {}
    /\ Len(replies) = 1
    /\ replies[1].kind = "combined"
    /\ BlockSet(replies[1]) # {}

(***************************************************************************)
(* Claims about the keep-alive task.                                       *)
(***************************************************************************)

\* the outcomes of a probe
ProbeOutcomes == {"ok", "unauthorized", "http_error", "error"}

\* C20: once started the keep-alive task never returns, and after every
\* probe outcome (success, authentication failure, another HTTP status, any
\* other error) the task eventually sends another probe.
C20_LoopNeverEnds ==
    /\ [](kpc # "returned")
    /\ \A o \in ProbeOutcomes :
           (kout = o /\ kpc \in Sleeping) ~> (kpc = "probe")
    /\ (kpc = "probe") ~> (kpc \in Sleeping)

\* C20 witness: the third probe or a later one is under way, the latest
\* outcome was an authentication failure seen after the clock had advanced.
C20_Witness ==
    /\ kpc = "probe"
    /\ kout = "unauthorized"
    /\ ping_count >= 3
    /\ session_start_time > 0

C22_SpamHandOffAnyOutcome ==
    \A m \in MsgIds :
        (ShouldNotifySpam(m) /\ \A h \in Deliveries : msg[h] # m)
            => spamCalls[m] = insCount[m]

\* C24: forward_message is called at most once for a message id, however
\* often the message is delivered inside the window of the processing guard.
C24_ForwardAtMostOnce ==
    \A m \in MsgIds :
        (firstIns[m] # NoIns /\ now - firstIns[m].at < ttl) => forwardCalls[m] <= 1

\* C23: a message sent by the bot itself, and a message without text, is
\* never inserted into the processing cache, never routed and never handed
\* to the spam handler, whatever its mention and its link; its handling is
\* never suspended beyond the call of get_my_jid.
C23_NeverReactsToSelf ==
    \A m \in MsgIds :
        (Payloads[m].sender = MyJid \/ ~Payloads[m].text) =>
            /\ insCount[m] = 0 /\ ins[m] = NoIns
            /\ routerCalls[m] = 0 /\ spamCalls[m] = 0
            /\ \A i \in 1..Len(processing_cache) : processing_cache[i].key # m
            /\ \A h \in Deliveries :
                   msg[h] = m => pc[h] \in {"store", "forward", "jid"}

\* C23 witness: a message of the bot with a mention and an invite link and
\* a message without text were delivered and forwarded, every delivery was
\* answered, and nothing was inserted.
C23_Witness ==
    /\ \A h \in Deliveries : pc[h] = "done"
    /\ lastResponse = "ok"
    /\ forwardCalls["m5"] >= 1 /\ forwardCalls["m6"] >= 1
    /\ Payloads["m5"].mention /\ Payloads["m5"].link
    /\ inserted = 0

\* C25: when forward_message returns, after a failure as after a success,
\* the handler goes on in the same way: a message without text is answered
\* with "ok", any other message goes on to the self check with the guard
\* and the counts untouched; no exception reaches the caller.
C25_ForwardFailureSwallowed ==
    [][\A h \in Deliveries :
           (pc[h] = "forward" /\ pc'[h] # "forward") =>
               /\ IF Payloads[msg[h]].text
                  THEN pc'[h] = "jid" /\ msg'[h] = msg[h]
                  ELSE pc'[h] = "done" /\ lastResponse' = "ok"
               /\ UNCHANGED <<processing_cache, histVars, forwardCalls>>
      ]_vars

\* C25 witness: the forward of a delivery failed and the delivery went on
\* through the guard and the router to the spam handler.
C25_Witness ==
    \E h \in Deliveries :
        /\ fwdFailed[h]
        /\ pc[h] = "spam"
        /\ routerCalls[msg[h]] >= 1
        /\ insCount[msg[h]] >= 1

\* C26: a unit attempts a send only to the origin group if it wants its own
\* summary and to the linked groups that want summaries, only after the
\* summary was produced, and to no recipient twice: a group still to be
\* visited has not been sent to.
C26_OnlyEligibleRecipients ==
    \A g \in GroupJids :
        /\ tried[g] \subseteq EligibleRecipients(g)
        /\ sentTo[g] \subseteq tried[g]
        /\ tried[g] # {} =>
               /\ uattempts[g] >= 1
               /\ upc[g] \in {"send_self", "related", "send_cg", "commit", "done"}
               /\ outcome[g] \notin {"too_few", "summarize_failed", "raised"}
        /\ upc[g] = "send_self" => tried[g] = {g}
        /\ \A i, j \in 1..Len(ucgs[g]) :
               /\ ucgs[g][i] # g
               /\ i # j => ucgs[g][i] # ucgs[g][j]
               /\ i >= 2 => ucgs[g][i] \notin tried[g]

\* C26 witness: the origin group does not want its own summary, the linked
\* g2 does not want summaries either, and the unit has returned after
\* sending the summary to the linked g3 alone.
C26_Witness ==
    /\ upc["g1"] = "done"
    /\ ~usnap["g1"].send_summary_to_self
    /\ ~groups["g2"].send_summary_to_self
    /\ groups["g3"].community_keys = {"k1"}
    /\ sentTo["g1"] = {"g3"}
    /\ tried["g1"] = {"g3"}

\* C30: when a unit has advanced the last_summary_sync of its group from an
\* old value to a new one, every stored message of the group that is not
\* from the bot and whose timestamp is at or after the old value and before
\* the new one is among the messages the unit fetched.
C30_NoMessageSkipped ==
    \A g \in GroupJids :
        (/\ upc[g] = "done"
         /\ groups[g].last_summary_sync = uwm[g]
         /\ uwm[g] > usnap[g].last_summary_sync) =>
            \A m \in messages :
                (/\ m.group_jid = g
                 /\ m.sender_jid # MyJid
                 /\ m.timestamp >= usnap[g].last_summary_sync
                 /\ m.timestamp < uwm[g]) => m \in fetchedSet[g]

(***************************************************************************)
(* Claims about the intent router.                                         *)
(***************************************************************************)

\* C27: a call of the router calls the classifier exactly once and, once
\* the classifier has answered, has called exactly the one action of the
\* intent; when the classifier call failed no action was called, nothing
\* was sent, the classifier was not called again and the call has raised.
C27_ClassifyOnceDispatchOnce ==
    /\ classifyCalls <= 1
    /\ rpc # "idle" => classifyCalls = 1
    /\ rintent = "none" => (rpc \in {"idle", "classify"} /\ dispatched = <<>>)
    /\ rintent \in Intents => dispatched = <<ActionOf[rintent]>>
    /\ rintent = "failed" =>
           /\ rpc = "raised"
           /\ dispatched = <<>>
           /\ replies = <<>>
           /\ eresult = NotCalled
    /\ (rpc = "done" /\ rintent \in Intents \ {"summarize"}) =>
           (Len(replies) = 1 /\ replies[1].kind = ActionOf[rintent])

\* C27 witness: the classifier answered "about", the about action alone was
\* called and has sent its reply.
C27_Witness ==
    /\ rpc = "done"
    /\ classifyCalls = 1
    /\ rintent = "about"
    /\ dispatched = <<"about">>
    /\ Len(replies) = 1

(***************************************************************************)
(* Claims about the capacity and the entries of the processing guard.      *)
(***************************************************************************)

\* the entries of the cache and the entries not yet expired
CacheEntries(c) == { c[i] : i \in 1..Len(c) }

EntryKept(m) ==
    \E i \in 1..Len(processing_cache) :
        /\ processing_cache[i].key = m
        /\ processing_cache[i].expires = ins[m].at + ttl

\* C29 (as stated): the entry of an admitted id stays in the cache until its
\* window has elapsed, with the expiry it got at its insertion.
C29_EntryStaysAnyTraffic ==
    \A m \in MsgIds :
        (ins[m] # NoIns /\ now < ins[m].at + ttl) => EntryKept(m)

\* C29 (amended): an id is inserted before its message is routed; while its
\* window has not elapsed and fewer than maxsize other ids were inserted
\* since, its entry is in the cache with the expiry it got at its insertion
\* and a check of the id is rejected; only the insertion of an id changes
\* the cache, so no outcome of the router or the spam handler and no
\* rejected redelivery removes or renews an entry.
C29_EntryIndependentOfOutcome ==
    /\ [](\A m \in MsgIds :
              /\ (/\ ins[m] # NoIns
                  /\ now < ins[m].at + ttl
                  /\ inserted - ins[m].n < maxsize) => EntryKept(m)
              /\ routerCalls[m] <= insCount[m]
              /\ spamCalls[m] <= insCount[m])
    /\ [](\A h \in Deliveries :
              pc[h] \in {"router", "spam"} => ins[msg[h]] # NoIns)
    /\ [](lastCall.key # "none" =>
              ((lastCall.known /\ lastCall.age < ttl /\ lastCall.others < maxsize)
                   => ~lastCall.ok))
    /\ [][processing_cache' # processing_cache => inserted' = inserted + 1]_vars

\* C29 witness: the router call of the admitted m1 raised, the clock
\* advanced, a redelivery of m1 was rejected, and the entry of m1 is in the
\* cache with the expiry of its one insertion.
C29_Witness ==
    /\ routerCalls["m1"] = 1 /\ spamCalls["m1"] = 0 /\ insCount["m1"] = 1
    /\ \A h \in Deliveries : msg[h] # "m1"
    /\ lastCall.key = "m1" /\ lastCall.known /\ ~lastCall.ok
    /\ now > ins["m1"].at
    /\ EntryKept("m1")

====
